---- MODULE Spec2Model ----
(***************************************************************************)
(* Payment orchestration core of the Qpay/Novapay server:                  *)
(*   server/services/payment-orchestrator.ts   (PaymentOrchestrator)       *)
(*   server/services/ai-double-spend-detection.ts (Double-Spend Gate)      *)
(*   server/services/nownodes.ts               (Confirmation Monitor)      *)
(*   server/services/yellowcard.ts             (conversion provider)       *)
(*   server/services/mpesa.ts                  (payout rail)               *)
(*   server/services/lightning.ts              (Lightning node service)    *)
(*                                                                         *)
(* Every orchestrator method is an async function; its awaits on storage   *)
(* and on the external services are the points where other calls run.      *)
(* One step of the model is the code between two such awaits.              *)
(*                                                                         *)
(* Every storage access of the orchestrator is keyed by one invoice id and *)
(* no call reads or writes another invoice's rows, so the model follows    *)
(* one Invoice, its Lightning invoice and the calls made for it.           *)
(*                                                                         *)
(* Money is counted in 1/1000 KES, crypto amounts in 0.01 BTC, rates in    *)
(* KES per BTC and fee rates in 1/1000.                                    *)
(***************************************************************************)
EXTENDS Integers, Sequences, FiniteSets, TLC

\* ------------------------------------------------------------------ bounds
MaxTasks == 2
MaxConf == 1
MaxAlerts == 2
MaxGenerated == 8
MaxTime == 5
MaxReads == 2
MaxEvaluations == 2
MaxMarkCalls == 2
MaxAssessments == 2
ManyConfirmations == 100

Tasks == 1..MaxTasks

\* ------------------------------------------------------- program constants
GateMockConfRange == 10
HighAlertMinConf == 3
MediumAlertMinConf == 1
BtcMinConf == 1
MockBtcConfRange == 6
UsdtMinConf == 6
MockUsdtConfRange == 12
LightningConfirmations == 1
ServiceFeeRate == 25
BtcConversionFee == 15
MockBtcRateBase == 5500000
ReorgWindow == 6
ReorgBaseRisk == 25
ReorgRiskPerConf == 4
ReorgAlertRisk == 10
ReorgMediumBelow == 3
ReviewThreshold == 70
BlockThreshold == 85
VelocityWeight == 25
AmountWeight == 20
LocationWeight == 15
BehaviorWeight == 25
ReputationWeight == 15

Severities == {"low", "medium", "high", "critical"}
AlertTypes == {"mempool_conflict", "chain_reorg", "rbf_detected",
               "suspicious_pattern", "confirmed_double_spend"}

Alert(sev, type, conf) == [severity |-> sev, alertType |-> type, confidence |-> conf]

\* alerts.filter(alert => alert.severity === sev)
FilterSeverity(alerts, sev) == SelectSeq(alerts, LAMBDA a : a.severity = sev)

\* Mutant of isSafeToAccept: the critical rung is treated like the other rungs,
\* as a confirmation threshold (6) instead of an unconditional refusal.
isSafeToAccept_mut(alerts, confirmations) ==
    IF Len(FilterSeverity(alerts, "critical")) > 0 /\ confirmations < ReorgWindow THEN FALSE
    ELSE IF Len(FilterSeverity(alerts, "high")) > 0 /\ confirmations < HighAlertMinConf THEN FALSE
    ELSE IF Len(FilterSeverity(alerts, "medium")) > 0 /\ confirmations < MediumAlertMinConf THEN FALSE
    ELSE TRUE

\* Mutant of isSafeToAccept: the high rung tests the medium rung's threshold.
isSafeToAccept_highAtOne(alerts, confirmations) ==
    IF Len(FilterSeverity(alerts, "critical")) > 0 THEN FALSE
    ELSE IF Len(FilterSeverity(alerts, "high")) > 0 /\ confirmations < MediumAlertMinConf THEN FALSE
    ELSE IF Len(FilterSeverity(alerts, "medium")) > 0 /\ confirmations < MediumAlertMinConf THEN FALSE
    ELSE TRUE

\* AIDoubleSpendDetectionService.isSafeToAccept
isSafeToAccept(alerts, confirmations) ==
    IF Len(FilterSeverity(alerts, "critical")) > 0 THEN FALSE
    ELSE IF Len(FilterSeverity(alerts, "high")) > 0 /\ confirmations < HighAlertMinConf THEN FALSE
    ELSE IF Len(FilterSeverity(alerts, "medium")) > 0 /\ confirmations < MediumAlertMinConf THEN FALSE
    ELSE TRUE

\* Mutant of determineTransactionStatus: only the second confirmation test is kept.
determineTransactionStatus_sixOnly(alerts, confirmations) ==
    IF \E i \in DOMAIN alerts : alerts[i].alertType = "confirmed_double_spend"
    THEN "double_spent"
    ELSE IF Len(FilterSeverity(alerts, "high")) + Len(FilterSeverity(alerts, "critical")) > 0
    THEN "suspicious"
    ELSE IF confirmations >= ReorgWindow THEN "confirmed"
    ELSE "pending"

\* AIDoubleSpendDetectionService.determineTransactionStatus
determineTransactionStatus(alerts, confirmations) ==
    IF \E i \in DOMAIN alerts : alerts[i].alertType = "confirmed_double_spend"
    THEN "double_spent"
    ELSE IF Len(FilterSeverity(alerts, "high")) + Len(FilterSeverity(alerts, "critical")) > 0
    THEN "suspicious"
    ELSE IF confirmations >= ReorgWindow THEN "confirmed"
    ELSE IF confirmations >= MediumAlertMinConf THEN "confirmed"
    ELSE "pending"

\* AIDoubleSpendDetectionService.detectMempoolConflicts: conflicting = another
\* mempool transaction of the sender within 5 minutes, rapid = more than two
\* within 30 seconds.
detectMempoolConflicts(conflicting, rapid) ==
    (IF conflicting THEN <<Alert("high", "mempool_conflict", 85)>> ELSE <<>>)
    \o (IF rapid THEN <<Alert("medium", "suspicious_pattern", 70)>> ELSE <<>>)

\* AIDoubleSpendDetectionService.detectRBFAttempts: isRBFEnabled is the mock's
\* Math.random() > 0.8, originalTx the result of the find over rbfTransactions.
detectRBFAttempts(isRBFEnabled, originalTx) ==
    (IF isRBFEnabled THEN <<Alert("medium", "rbf_detected", 80)>> ELSE <<>>)
    \o (IF originalTx THEN <<Alert("high", "rbf_detected", 90)>> ELSE <<>>)

\* AIDoubleSpendDetectionService.analyzeSpendingPatterns
analyzeSpendingPatterns(suspiciousSender, isLowFee, hasMultipleOutputs) ==
    (IF suspiciousSender THEN <<Alert("high", "suspicious_pattern", 85)>> ELSE <<>>)
    \o (IF isLowFee THEN <<Alert("medium", "suspicious_pattern", 65)>> ELSE <<>>)
    \o (IF hasMultipleOutputs THEN <<Alert("low", "suspicious_pattern", 50)>> ELSE <<>>)

Max(a, b) == IF a >= b THEN a ELSE b

\* Mutant of detectChainReorgRisks: the severity is `medium` up to 3 confirmations.
detectChainReorgRisks_mediumAtThree(hasBlockHeight, confirmations) ==
    IF hasBlockHeight /\ confirmations < ReorgWindow
       /\ Max(0, ReorgBaseRisk - confirmations * ReorgRiskPerConf) > ReorgAlertRisk
    THEN <<Alert(IF confirmations <= ReorgMediumBelow THEN "medium" ELSE "low",
                 "chain_reorg", 60 + confirmations * 10)>>
    ELSE <<>>

\* AIDoubleSpendDetectionService.detectChainReorgRisks
detectChainReorgRisks(hasBlockHeight, confirmations) ==
    IF hasBlockHeight /\ confirmations < ReorgWindow
       /\ Max(0, ReorgBaseRisk - confirmations * ReorgRiskPerConf) > ReorgAlertRisk
    THEN <<Alert(IF confirmations < ReorgMediumBelow THEN "medium" ELSE "low",
                 "chain_reorg", 60 + confirmations * 10)>>
    ELSE <<>>

\* AIDoubleSpendDetectionService.analyzeTransaction for a transaction that
\* getTransactionData returned: the four checks' alerts, in the code's order.
analyzeTransaction(conflicting, isRBFEnabled, originalTx, hasMultipleOutputs, confirmations) ==
    detectMempoolConflicts(conflicting, FALSE)
    \o detectRBFAttempts(isRBFEnabled, originalTx)
    \o analyzeSpendingPatterns(FALSE, FALSE, hasMultipleOutputs)
    \o detectChainReorgRisks(TRUE, confirmations)

\* getTransactionData is a mock: confirmations = Math.floor(Math.random() * 10),
\* drawn anew by every call.
GateMockConfs == 0..(GateMockConfRange - 1)

\* AIDoubleSpendDetectionService.getTransactionStatus: safeToAccept is the ladder
\* over the alerts of one getTransactionData draw (c2) and the confirmations of
\* another (c1).  The set of verdicts the gate can return to monitorPayment.
GateVerdicts ==
    { isSafeToAccept(analyzeTransaction(m, r, o, x, c2), c1) :
        m \in BOOLEAN, r \in BOOLEAN, o \in BOOLEAN, x \in BOOLEAN,
        c1 \in GateMockConfs, c2 \in GateMockConfs }

\* ------------------------------------------------------------------ money
InvoiceAmounts == {1}
MockRates == {MockBtcRateBase}
SavingsChoices == {500000}
Timings == {"immediate", "wait_5min", "wait_15min", "wait_30min"}

\* x * (r / 1000)
TimesRate(x, r) == (x * r) \div 1000

\* YellowcardService.calculateKESAmount: grossKesAmount, conversionFee, netAmount
grossKesAmount(cryptoAmount, exchangeRate) == cryptoAmount * exchangeRate * 10
conversionFee(gross, feeRate) == TimesRate(gross, feeRate)
netAmount(gross, feeRate) == gross - conversionFee(gross, feeRate)

\* processKESSettlement lines 422-458: conversionResult.kesAmount as it stands
\* after the branch on optimization.recommendedTiming.
kesAmountAfterOptimization(net, timing, estimatedSavings) ==
    IF timing = "immediate" THEN net ELSE net + estimatedSavings

\* processKESSettlement lines 461-463
serviceFee(kesAmount) == TimesRate(kesAmount, ServiceFeeRate)
netKESAmount(kesAmount) == kesAmount - serviceFee(kesAmount)

\* ------------------------------------------------------------------ state
VARIABLES
    isDevelopment,  \* process.env.NODE_ENV === "development" (nownodes, yellowcard, mpesa)
    invoice,        \* the Invoice's row in the invoices table
    lnStatus,       \* lightningService.invoiceStore: status of the Invoice's Lightning invoice
    transactions,   \* the transactions table: the row inserted by each orchestrator task
    tasks,          \* the running orchestrator calls: position and local variables
    ledger,         \* what each task handed to the conversion provider and the payout rail
    gate,           \* one assessment of the Double-Spend Gate, from its inputs to the decision
    risk,           \* one createInvoice call with its Risk Gate pre-screening
    target,         \* the payment targets of one invoice over its generatePaymentAddress calls
    ln,             \* one Lightning invoice of lightningService.invoiceStore and the clock
    watcher,        \* one question to the Confirmation Monitor and what monitorPayment does with it
    reader, \* the last answer of getTransactionStatus and the number of calls
    optimizer, \* one calculateOptimalTiming call: its inputs and its result
    registry, \* the Double-Spend Gate's monitoredTransactions and rbfTransactions
    fraud  \* the Risk Gate's transactionHistory and merchantPatterns, and its last assessment

vars == <<isDevelopment, invoice, lnStatus, transactions, tasks, ledger, gate, risk, target, ln,
          watcher, reader, optimizer, registry, fraud>>

\* The variables of the orchestrator's own machine.
core == <<isDevelopment, invoice, lnStatus, transactions, tasks, ledger>>

\* The variables of the single services followed on their own.
units == <<gate, risk, target, ln, watcher, reader, optimizer, registry, fraud>>

SettlementPreferences == {"mpesa", "btc", "lightning"}

NoInvoice == [status |-> "none", settlement_preference |-> "none", amount |-> 0,
              payment_address |-> FALSE, lightning_payment_hash |-> FALSE,
              settlement_tx_id |-> FALSE, history |-> <<>>]

NoTx == [crypto_currency |-> "none", crypto_amount |-> 0,
         fiat_amount |-> 0, service_fee |-> 0, blockchain_confirmations |-> 0,
         status |-> "none"]

IdleTask == [pc |-> "idle", monitorStatus |-> "none", safeToAccept |-> FALSE,
             confirmations |-> 0, seenStatus |-> "none", hadActive |-> FALSE,
             settlement_preference |-> "none", cryptoAmount |-> 0, kesAmount |-> 0,
             mpesaStatus |-> "none", result |-> "none"]

\* No assessment is being followed.
NoGate == [pc |-> "off", alerts |-> <<>>, confirmations |-> 0, status |-> "none",
           analysisConfirmations |-> 0, monitoringStatus |-> "none",
           safeToAccept |-> FALSE, release |-> FALSE]

RiskFactorNames == {"velocityRisk", "amountRisk", "locationRisk", "behaviorRisk",
                    "reputationRisk"}

\* No createInvoice call is being followed.
NoRisk == [pc |-> "off", hasMetadata |-> FALSE, threw |-> FALSE, hasAssessment |-> FALSE,
           riskFactors |-> [f \in RiskFactorNames |-> 0], overallRisk |-> 0,
           requiresManualReview |-> FALSE, blockTransaction |-> FALSE,
           returnedAssessment |-> FALSE]

\* No invoice's payment targets are being followed.  Targets are numbered in
\* the order the collaborators hand them out; 0 is "none stored".
NoTarget == [pc |-> "off", payment_address |-> 0, address_currency |-> "none",
             lightning_payment_request |-> 0, generated |-> 0,
             lastCurrency |-> "none", lastReturned |-> 0]

\* No Lightning invoice is being followed.
NoLn == [status |-> "none", now |-> 0, expiry_time |-> 0, lastRead |-> "none",
         expiredReads |-> 0, loop |-> "off", processCalls |-> 0, markCalls |-> 0,
         markedTrue |-> 0, payments |-> 0, lateMark |-> "none", loopRead |-> "none"]

\* No question to the Confirmation Monitor is being followed.
NoWatcher == [pc |-> "off", currency |-> "none", outcome |-> "none", txHash |-> FALSE,
              confirmations |-> 0, status |-> "none", safeToAccept |-> FALSE,
              called |-> "none"]

\* No getTransactionStatus call has been made.
NoReader == [reads |-> 0, outcome |-> "none", invoice |-> NoInvoice, transactions |-> <<>>,
             status |-> "none", lightningInvoice |-> "none"]

Horizons == {"wait_5min", "wait_15min", "wait_30min"}

\* No calculateOptimalTiming call is being followed.
NoOptimizer == [pc |-> "off", amount |-> 0, currentRate |-> 0,
                predictedRates |-> [h \in Horizons |-> 0],
                confidence |-> [h \in Horizons |-> 0],
                volatilityIndex |-> 0, maxWaitTime |-> 0,
                recommendedTiming |-> "none", estimatedSavings |-> 0,
                confidenceLevel |-> 0]

Hashes == {"tx1", "tx2"}
InvoiceIds == {"inv1", "inv2"}
Addresses == {"addrA", "addrB"}

\* No TransactionMonitoring is stored for a hash.
NoMonitoring == [invoiceId |-> "none", status |-> "none", alerts |-> <<>>,
                 mempoolEntryTime |-> 0, lastUpdateTime |-> 0]

\* The Double-Spend Gate before any transaction is registered.
NoRegistry == [monitoredTransactions |-> [h \in Hashes |-> NoMonitoring],
               rbfTransactions |-> {}, fromAddress |-> [h \in Hashes |-> "none"],
               now |-> 0, lastHash |-> "none", lastConfirmations |-> 0]

\* A merchant without an entry in merchantPatterns.
NoPattern == [amountSum |-> 0, transactionCount |-> 0, commonLocations |-> {},
              deviceFingerprints |-> {}]

\* The Risk Gate's transactionHistory and merchantPatterns after construction
\* (initializeMockPatterns: avgAmount 150 over 45 transactions for merchant_1),
\* and no assessment made.  avgAmount is amountSum / transactionCount.
NoFraud == [transactionHistory |-> [m \in {"merchant_1", "merchant_2"} |-> <<>>],
            merchantPatterns |->
                [m \in {"merchant_1", "merchant_2"} |->
                    IF m = "merchant_1"
                    THEN [amountSum |-> 150 * 45, transactionCount |-> 45,
                          commonLocations |-> {"Kenya", "Uganda", "Tanzania"},
                          deviceFingerprints |-> {"Mozilla"}]
                    ELSE NoPattern],
            assessments |-> 0, lastData |-> [merchantId |-> "none"],
            lastHadPattern |-> FALSE, lastWasCommon |-> FALSE, locationRisk |-> 0]

NoLedger == [gross |-> 0, feeRate |-> 0, conversions |-> 0, payouts |-> 0,
             paidOut |-> 0, reported |-> "none", scheduled |-> 0, thrownAt |-> "none",
             conversionStatus |-> "none"]

Init ==
    /\ isDevelopment \in BOOLEAN
    /\ invoice = NoInvoice
    /\ lnStatus = "none"
    /\ transactions = [c \in Tasks |-> NoTx]
    /\ tasks = [c \in Tasks |-> IdleTask]
    /\ ledger = [c \in Tasks |-> NoLedger]
    /\ fraud = NoFraud
    /\ registry = NoRegistry
    /\ optimizer = NoOptimizer
    /\ reader = NoReader
    /\ gate = NoGate
    /\ risk = NoRisk
    /\ target = NoTarget
    /\ ln = NoLn
    /\ watcher = NoWatcher

\* Task slots are taken in order: slot c is free when it is the first idle one.
FirstFree(c) == tasks[c].pc = "idle" /\ \A d \in Tasks : d < c => tasks[d].pc # "idle"

\* The Invoice has a Transaction in `processing` or `completed`.
HasActiveTransaction ==
    \E c \in Tasks : transactions[c].status \in {"processing", "completed"}

\* ---------------------------------------------------------- createInvoice
\* Mutant of requiresReviewOf: a missing verdict is treated as a review.
requiresReviewOf_missing(hasAssessment, requiresManualReview) ==
    ~hasAssessment \/ requiresManualReview

\* Mutant of requiresReviewOf: the verdict's flag is not looked at.
requiresReviewOf_never(hasAssessment, requiresManualReview) == FALSE

\* createInvoice line 86: riskAssessment?.requiresManualReview
requiresReviewOf(hasAssessment, requiresManualReview) ==
    hasAssessment /\ requiresManualReview

\* createInvoice lines 86-88: the status the invoice is inserted with.
initialStatus(requiresReview) == IF requiresReview THEN "pending_review" ELSE "pending"

\* createInvoice lines 63-93: the Lightning invoice when payment_method is
\* "lightning", then the insert into invoices.
StoreInvoice(pref, amt, requiresReview, lightning) ==
    /\ invoice.status = "none"
    /\ invoice' =
           [status |-> initialStatus(requiresReview),
            settlement_preference |-> pref, amount |-> amt,
            payment_address |-> FALSE, lightning_payment_hash |-> lightning,
            settlement_tx_id |-> FALSE,
            history |-> <<initialStatus(requiresReview)>>]
    /\ lnStatus' = IF lightning THEN "pending" ELSE lnStatus

\* PaymentOrchestrator.createInvoice: the insert of lines 80-93.  requiresReview is
\* riskAssessment?.requiresManualReview, lightning is payment_method === "lightning".
CreateInvoice(pref, amt, requiresReview, lightning) ==
    /\ StoreInvoice(pref, amt, requiresReview, lightning)
    /\ UNCHANGED <<units, isDevelopment, transactions, tasks, ledger>>

\* PaymentOrchestrator.generatePaymentAddress: the Lightning request is created
\* once and returned afterwards; a chain address is generated and stored by every call.
GeneratePaymentAddress(cryptoCurrency) ==
    /\ invoice.status # "none"
    /\ IF cryptoCurrency = "LIGHTNING"
       THEN IF invoice.lightning_payment_hash
            THEN UNCHANGED <<invoice, lnStatus>>
            ELSE /\ invoice' = [invoice EXCEPT !.lightning_payment_hash = TRUE]
                 /\ lnStatus' = "pending"
       ELSE /\ invoice' = [invoice EXCEPT !.payment_address = TRUE]
            /\ UNCHANGED lnStatus
    /\ UNCHANGED <<units, isDevelopment, transactions, tasks, ledger>>

\* The Invoice's deadline passes, or the merchant cancels it (spec section 3:
\* `expired`/`cancelled` are reachable from any non-terminal state but not from `paid`).
ExpireInvoice(terminal) ==
    /\ invoice.status \in {"pending", "pending_review"}
    /\ invoice' = [invoice EXCEPT !.status = terminal, !.history = Append(@, terminal)]
    /\ UNCHANGED <<units, isDevelopment, lnStatus, transactions, tasks, ledger>>

\* LightningService.markInvoiceAsPaid
markInvoiceAsPaid ==
    /\ lnStatus = "pending"
    /\ lnStatus' = "paid"
    /\ UNCHANGED <<units, isDevelopment, invoice, transactions, tasks, ledger>>

\* --------------------------------------------------------- monitorPayment
\* PaymentOrchestrator.monitorPayment lines 173-202: the invoice is read, the
\* Lightning loop is started when the invoice has a payment hash, and the chain
\* watcher is asked when it has a payment address.
MonitorPayment ==
    /\ invoice.status # "none"
    /\ invoice.lightning_payment_hash \/ invoice.payment_address
    /\ \E c \in Tasks :
         /\ FirstFree(c)
         /\ IF invoice.lightning_payment_hash /\ invoice.payment_address
            THEN /\ c + 1 \in Tasks
                 /\ tasks' = [tasks EXCEPT ![c] = [IdleTask EXCEPT !.pc = "ln_poll"],
                                           ![c + 1] = [IdleTask EXCEPT !.pc = "watch"]]
            ELSE tasks' = [tasks EXCEPT ![c] =
                     [IdleTask EXCEPT !.pc = IF invoice.payment_address
                                             THEN "watch" ELSE "ln_poll"]]
    /\ UNCHANGED <<units, isDevelopment, invoice, lnStatus, transactions, ledger>>

\* A call that has returned or thrown: its local variables are gone.
Done(res) == [IdleTask EXCEPT !.pc = "done", !.result = res]

\* NownodesService.monitorBitcoinTransaction: what the watcher can answer when it
\* does not throw.  The development mock draws confirmations and status
\* independently; the real branch finds no transaction, or derives the status
\* from the confirmations.
WatcherConfs == 0..(IF MaxConf < MockBtcConfRange THEN MaxConf ELSE MockBtcConfRange - 1)

\* Mutant of monitorTransaction: the answer for "no matching transaction" is
\* built with the status of a found one.
monitorTransaction_absentConfirmed(minConf, dev, expectedAmount, mockConfs, realConfs) ==
    IF dev
    THEN { [txHash |-> TRUE, amount |-> expectedAmount, confirmations |-> k, status |-> st] :
             k \in mockConfs, st \in {"confirmed", "pending"} }
    ELSE { [txHash |-> FALSE, amount |-> 0, confirmations |-> 0, status |-> "confirmed"] }
         \cup { [txHash |-> TRUE, amount |-> expectedAmount, confirmations |-> k,
                 status |-> IF k >= minConf THEN "confirmed" ELSE "pending"] :
                  k \in realConfs }

\* The body shared by monitorBitcoinTransaction and monitorUSDTTransaction, which
\* differ in the confirmations the status asks for (minConf) and in the range
\* of the mock's confirmations.
monitorTransaction(minConf, dev, expectedAmount, mockConfs, realConfs) ==
    IF dev
    THEN { [txHash |-> TRUE, amount |-> expectedAmount, confirmations |-> k, status |-> st] :
             k \in mockConfs, st \in {"confirmed", "pending"} }
    ELSE { [txHash |-> FALSE, amount |-> 0, confirmations |-> 0, status |-> "pending"] }
         \cup { [txHash |-> TRUE, amount |-> expectedAmount, confirmations |-> k,
                 status |-> IF k >= minConf THEN "confirmed" ELSE "pending"] :
                  k \in realConfs }

monitorBitcoinTransaction(dev, expectedAmount) ==
    monitorTransaction(BtcMinConf, dev, expectedAmount, WatcherConfs, 0..MaxConf)

\* Mutant of shouldProcessPayment: the two conditions joined by "or".
shouldProcessPayment_mut(safeToAccept, status) == safeToAccept \/ status = "confirmed"

\* PaymentOrchestrator.monitorPayment lines 221-224
shouldProcessPayment(safeToAccept, status) == safeToAccept /\ status = "confirmed"

\* PaymentOrchestrator.monitorPayment lines 204 and 221-237: what the call does
\* with the watcher's answer and the gate's verdict.
watchOutcome(txHash, status, safeToAccept) ==
    IF ~txHash THEN "skip"
    ELSE IF shouldProcessPayment(safeToAccept, status) THEN "release"
    ELSE "held"

\* PaymentOrchestrator.monitorPayment lines 193-237, from the watcher's answer to
\* the decision: the Double-Spend Gate's startMonitoring and getTransactionStatus
\* wait for no outside event, so no other call's storage access runs in between.
\* A call that ends in the else branch of line 231 has result "held".
Watch(c) ==
    /\ tasks[c].pc = "watch"
    /\ \/ /\ ~isDevelopment   \* axios throws: "Failed to monitor Bitcoin transaction"
          /\ tasks' = [tasks EXCEPT ![c] = Done("error")]
       \/ \E mr \in monitorBitcoinTransaction(isDevelopment, invoice.amount),
             safe \in GateVerdicts :
            tasks' = [tasks EXCEPT ![c] =
                IF watchOutcome(mr.txHash, mr.status, safe) = "skip" THEN Done("ok")
                ELSE IF watchOutcome(mr.txHash, mr.status, safe) = "release"
                THEN [@ EXCEPT !.pc = "pp_select", !.monitorStatus = mr.status,
                               !.safeToAccept = safe, !.cryptoAmount = mr.amount,
                               !.confirmations = mr.confirmations]
                ELSE Done("held")]
    /\ UNCHANGED <<units, isDevelopment, invoice, lnStatus, transactions, ledger>>

\* ---------------------------------------------------------- processPayment
\* The select of processPayment / processLightningPayment: the invoice row is
\* read into the call's local `invoice`.
SelectInvoice(c, next) ==
    /\ invoice.status # "none"
    /\ tasks' = [tasks EXCEPT ![c] =
           [@ EXCEPT !.pc = next,
                     !.seenStatus = invoice.status,
                     !.hadActive = HasActiveTransaction,
                     !.settlement_preference = invoice.settlement_preference]]
    /\ UNCHANGED <<units, isDevelopment, invoice, lnStatus, transactions, ledger>>

\* Mutant of throwsOnInsertError: txError is not looked at.
throwsOnInsertError_ignored(txError) == FALSE

\* processPayment lines 380-382, processLightningPayment lines 303-307:
\* `if (txError) throw`.
throwsOnInsertError(txError) == txError

\* The insert into transactions: a row in `processing`, or txError and a throw.
InsertTransaction(c, currency, confs, next) ==
    \E txError \in BOOLEAN :
       /\ transactions' =
              IF txError THEN transactions
              ELSE [transactions EXCEPT ![c] =
                      [crypto_currency |-> currency,
                       crypto_amount |-> tasks[c].cryptoAmount,
                       fiat_amount |-> invoice.amount, service_fee |-> 0,
                       blockchain_confirmations |-> confs, status |-> "processing"]]
       /\ tasks' = [tasks EXCEPT ![c] =
              IF throwsOnInsertError(txError) THEN Done("error")
              ELSE [@ EXCEPT !.pc = next, !.confirmations = 0]]

\* Mutant of paidInvoice: the update also overwrites the invoice's amount.
paidInvoice_amount(inv) ==
    [inv EXCEPT !.status = "paid", !.history = Append(@, "paid"), !.amount = 0]

\* processPayment lines 384-391, processLightningPayment: the columns the update
\* to `paid` writes (status, transaction_hash, updated_at).
paidInvoice(inv) == [inv EXCEPT !.status = "paid", !.history = Append(@, "paid")]

\* Mutant of settlementPath: only `btc` keeps the crypto.
settlementPath_btcOnly(pref) == IF pref = "btc" THEN "b_update" ELSE "k_convert"

\* processPayment lines 393-398, processLightningPayment lines 318-339: the
\* settlement the call goes on with, processKESSettlement or
\* processBitcoinSettlement.
settlementPath(pref) == IF pref = "mpesa" THEN "k_convert" ELSE "b_update"

\* The update of the invoice to `paid`, then the dispatch on settlement_preference.
MarkPaid(c) ==
    /\ invoice' = paidInvoice(invoice)
    /\ tasks' = [tasks EXCEPT ![c].pc = settlementPath(tasks[c].settlement_preference)]

\* PaymentOrchestrator.processPayment lines 352-360
ProcessPayment_Select(c) ==
    /\ tasks[c].pc = "pp_select"
    /\ SelectInvoice(c, "pp_insert")

\* PaymentOrchestrator.processPayment lines 362-382
ProcessPayment_Insert(c) ==
    /\ tasks[c].pc = "pp_insert"
    /\ InsertTransaction(c, "BTC", tasks[c].confirmations, "pp_paid")
    /\ UNCHANGED <<units, isDevelopment, invoice, lnStatus, ledger>>

\* PaymentOrchestrator.processPayment lines 384-398
ProcessPayment_Paid(c) ==
    /\ tasks[c].pc = "pp_paid"
    /\ MarkPaid(c)
    /\ UNCHANGED <<units, isDevelopment, lnStatus, transactions, ledger>>

\* ------------------------------------------------- Lightning monitor loop
\* LightningService.getInvoiceStatus lines 153-160: the status of the invoice
\* it returns; pastExpiry is now > invoice.expiry_time.
readStatus(status, pastExpiry) ==
    IF status = "pending" /\ pastExpiry THEN "expired" ELSE status

\* Mutant of storedStatus: the expiry is applied to the answer only.
storedStatus_notSaved(status, pastExpiry) == status

\* LightningService.getInvoiceStatus lines 155-158: the status left in
\* invoiceStore by the read.
storedStatus(status, pastExpiry) == readStatus(status, pastExpiry)

\* PaymentOrchestrator.monitorLightningPayment.checkPayment with
\* LightningService.getInvoiceStatus: a pending invoice past its expiry_time
\* becomes expired; `paid` goes on to processLightningPayment; `pending`
\* re-arms the 5-second timer; anything else ends the loop.
CheckPayment(c) ==
    /\ tasks[c].pc = "ln_poll"
    /\ \E pastExpiry \in BOOLEAN :
         LET status == readStatus(lnStatus, pastExpiry)
         IN /\ lnStatus' = storedStatus(lnStatus, pastExpiry)
            /\ tasks' = [tasks EXCEPT ![c] =
                   IF status = "paid" THEN [@ EXCEPT !.pc = "lp_select",
                                                     !.cryptoAmount = invoice.amount]
                   ELSE IF status = "pending" THEN @
                   ELSE Done("ok")]
    /\ UNCHANGED <<units, isDevelopment, invoice, transactions, ledger>>

\* PaymentOrchestrator.processLightningPayment lines 272-280
ProcessLightningPayment_Select(c) ==
    /\ tasks[c].pc = "lp_select"
    /\ SelectInvoice(c, "lp_insert")

\* PaymentOrchestrator.processLightningPayment lines 282-307
ProcessLightningPayment_Insert(c) ==
    /\ tasks[c].pc = "lp_insert"
    /\ InsertTransaction(c, "LIGHTNING", LightningConfirmations, "lp_paid")
    /\ UNCHANGED <<units, isDevelopment, invoice, lnStatus, ledger>>

\* PaymentOrchestrator.processLightningPayment lines 309-339
ProcessLightningPayment_Paid(c) ==
    /\ tasks[c].pc = "lp_paid"
    /\ MarkPaid(c)
    /\ UNCHANGED <<units, isDevelopment, lnStatus, transactions, ledger>>

\* ------------------------------------------------------ processKESSettlement
\* Lines 412-458: optimizeConversion, then executeCryptoConversion (after
\* scheduleOptimalConversion when the timing is not immediate).  The provider
\* converts at one of its rates at its BTC fee; outside development the call
\* may throw.
\* Mutant of conversionCalls: a deferred recommendation is scheduled only.
conversionCalls_deferred(timing) == IF timing = "immediate" THEN 1 ELSE 0

\* Lines 420-455: the executeCryptoConversion calls of the branch taken on
\* optimization.recommendedTiming; lines 432-439 and part_000 lines 296-302: the
\* entries scheduleOptimalConversion pushes onto conversionQueue.
conversionCalls(timing) == 1
scheduleCalls(timing) == IF timing = "immediate" THEN 0 ELSE 1

\* YellowcardService.executeCryptoConversion: the status of the conversion it
\* returns, drawn by the development mock or taken from the provider's response.
conversionStatuses == {"processing", "failed"}

KES_Convert(c) ==
    /\ tasks[c].pc = "k_convert"
    /\ \/ /\ ~isDevelopment
          /\ tasks' = [tasks EXCEPT ![c].pc = "k_catch"]
          /\ \E timing \in Timings :
               ledger' = [ledger EXCEPT ![c].conversions = @ + conversionCalls(timing),
                                        ![c].scheduled = @ + scheduleCalls(timing),
                                        ![c].thrownAt = "convert"]
       \/ \E timing \in Timings, rate \in MockRates, conversionStatus \in conversionStatuses :
          \E estimatedSavings \in (IF timing = "immediate" THEN {0} ELSE SavingsChoices) :
            LET gross == grossKesAmount(tasks[c].cryptoAmount, rate)
            IN /\ tasks' = [tasks EXCEPT ![c].pc = "k_send",
                     ![c].kesAmount = kesAmountAfterOptimization(
                         netAmount(gross, BtcConversionFee), timing, estimatedSavings)]
               /\ ledger' = [ledger EXCEPT ![c].conversions = @ + conversionCalls(timing),
                                           ![c].scheduled = @ + scheduleCalls(timing),
                                           ![c].gross = gross,
                                           ![c].feeRate = BtcConversionFee,
                                           ![c].conversionStatus = conversionStatus]
    /\ UNCHANGED <<units, isDevelopment, invoice, lnStatus, transactions>>

\* MpesaService.sendMoney: the statuses it can answer with.
sendMoneyStatuses(dev) == IF dev THEN {"completed", "failed"} ELSE {"pending"}

\* Lines 460-471: the service fee, then mpesaService.sendMoney(netKESAmount).
KES_Send(c) ==
    /\ tasks[c].pc = "k_send"
    /\ \/ /\ ~isDevelopment
          /\ tasks' = [tasks EXCEPT ![c].pc = "k_catch"]
          /\ ledger' = [ledger EXCEPT ![c].payouts = @ + 1, ![c].thrownAt = "send"]
       \/ \E st \in sendMoneyStatuses(isDevelopment) :
            /\ tasks' = [tasks EXCEPT ![c].pc = "k_update_tx", ![c].mpesaStatus = st]
            /\ ledger' = [ledger EXCEPT ![c].payouts = @ + 1,
                                        ![c].paidOut = netKESAmount(tasks[c].kesAmount),
                                        ![c].reported = st]
    /\ UNCHANGED <<units, isDevelopment, invoice, lnStatus, transactions>>

\* Mutant of settledStatus: the payout rail's status is stored as reported.
settledStatus_asReported(mpesaStatus) == mpesaStatus

\* Line 480: the status written to the transaction after the payout call.
settledStatus(mpesaStatus) == IF mpesaStatus = "completed" THEN "completed" ELSE "pending"

\* Lines 473-483: the settlement details are written to the transaction.
KES_UpdateTransaction(c) ==
    /\ tasks[c].pc = "k_update_tx"
    /\ transactions' = [transactions EXCEPT ![c] =
           [@ EXCEPT !.fiat_amount = tasks[c].kesAmount,
                     !.service_fee = serviceFee(tasks[c].kesAmount),
                     !.status = settledStatus(tasks[c].mpesaStatus)]]
    /\ tasks' = [tasks EXCEPT ![c].pc = "k_update_invoice", ![c].kesAmount = 0,
                              ![c].mpesaStatus = "none"]
    /\ UNCHANGED <<units, isDevelopment, invoice, lnStatus, ledger>>

\* Lines 485-491: settlement_tx_id is written to the invoice.
KES_UpdateInvoice(c) ==
    /\ tasks[c].pc = "k_update_invoice"
    /\ invoice' = [invoice EXCEPT !.settlement_tx_id = TRUE]
    /\ tasks' = [tasks EXCEPT ![c] = Done("ok")]
    /\ UNCHANGED <<units, isDevelopment, lnStatus, transactions, ledger>>

\* Mutant of catchStatus: the handler leaves the transaction as it was.
catchStatus_mut == "processing"

\* Lines 492-502: the status the catch block writes before it rethrows.
catchStatus == "failed"

KES_Catch(c) ==
    /\ tasks[c].pc = "k_catch"
    /\ transactions' = [transactions EXCEPT ![c].status = catchStatus]
    /\ tasks' = [tasks EXCEPT ![c] = Done("error")]
    /\ UNCHANGED <<units, isDevelopment, invoice, lnStatus, ledger>>

\* -------------------------------------------------- processBitcoinSettlement
\* 2.5% of the crypto amount, in 1/1000 of its unit.
cryptoServiceFee(cryptoAmount) == TimesRate(cryptoAmount * 1000, ServiceFeeRate)

\* Lines 516-536: the fee is recorded and the transaction completed.
Bitcoin_Update(c) ==
    /\ tasks[c].pc = "b_update"
    /\ transactions' = [transactions EXCEPT ![c] =
           [@ EXCEPT !.service_fee = cryptoServiceFee(tasks[c].cryptoAmount),
                     !.status = "completed"]]
    /\ tasks' = [tasks EXCEPT ![c] = Done("ok")]
    /\ UNCHANGED <<units, isDevelopment, invoice, lnStatus, ledger>>

\* ------------------------------------------------------------ specification
Next ==
    \/ \E pref \in SettlementPreferences, amt \in InvoiceAmounts,
          review \in BOOLEAN, lightning \in BOOLEAN :
          CreateInvoice(pref, amt, review, lightning)
    \/ \E cur \in {"BTC", "USDT", "LIGHTNING"} : GeneratePaymentAddress(cur)
    \/ \E terminal \in {"expired", "cancelled"} : ExpireInvoice(terminal)
    \/ markInvoiceAsPaid
    \/ MonitorPayment
    \/ \E c \in Tasks : Watch(c)
    \/ \E c \in Tasks : ProcessPayment_Select(c)
    \/ \E c \in Tasks : ProcessPayment_Insert(c)
    \/ \E c \in Tasks : ProcessPayment_Paid(c)
    \/ \E c \in Tasks : CheckPayment(c)
    \/ \E c \in Tasks : ProcessLightningPayment_Select(c)
    \/ \E c \in Tasks : ProcessLightningPayment_Insert(c)
    \/ \E c \in Tasks : ProcessLightningPayment_Paid(c)
    \/ \E c \in Tasks : KES_Convert(c)
    \/ \E c \in Tasks : KES_Send(c)
    \/ \E c \in Tasks : KES_UpdateTransaction(c)
    \/ \E c \in Tasks : KES_UpdateInvoice(c)
    \/ \E c \in Tasks : KES_Catch(c)
    \/ \E c \in Tasks : Bitcoin_Update(c)

Spec == Init /\ [][Next]_vars

\* ------------------------------------------------- the Double-Spend Gate alone
\* The ladder of isSafeToAccept and the decision of monitorPayment on every
\* alert list of up to MaxAlerts alerts and on confirmation counts around the
\* ladder's thresholds and far above them.  No check of analyzeTransaction
\* produces a `critical` alert, so the alert lists are inputs here.
GateAlertLists ==
    UNION { [1..n -> { Alert(sev, type, 85) :
                         sev \in Severities,
                         type \in {"mempool_conflict", "confirmed_double_spend"} }] :
              n \in 0..MaxAlerts }

GateConfirmations == 0..(HighAlertMinConf + 1) \cup {ManyConfirmations}

InitGate ==
    /\ isDevelopment = TRUE
    /\ invoice = NoInvoice
    /\ lnStatus = "none"
    /\ transactions = [c \in Tasks |-> NoTx]
    /\ tasks = [c \in Tasks |-> IdleTask]
    /\ ledger = [c \in Tasks |-> NoLedger]
    /\ fraud = NoFraud
    /\ registry = NoRegistry
    /\ optimizer = NoOptimizer
    /\ reader = NoReader
    /\ risk = NoRisk
    /\ target = NoTarget
    /\ ln = NoLn
    /\ watcher = NoWatcher
    /\ \E alerts \in GateAlertLists, confirmations \in GateConfirmations,
          analysisConfirmations \in GateConfirmations, status \in {"confirmed", "pending"} :
          gate = [NoGate EXCEPT !.pc = "input", !.alerts = alerts,
                                !.confirmations = confirmations,
                                !.analysisConfirmations = analysisConfirmations,
                                !.status = status]

\* AIDoubleSpendDetectionService.getTransactionStatus: the analyzeTransaction of
\* line 334 stores monitoring.status (line 122) from its alerts and the
\* transaction it fetched; line 342 computes
\* safeToAccept: this.isSafeToAccept(alerts, confirmations) with the
\* confirmations of the fetch of line 332.
Gate_GetTransactionStatus ==
    /\ gate.pc = "input"
    /\ gate' = [gate EXCEPT !.pc = "assessed",
                            !.monitoringStatus =
                                determineTransactionStatus(gate.alerts,
                                                           gate.analysisConfirmations),
                            !.safeToAccept = isSafeToAccept(gate.alerts, gate.confirmations)]
    /\ UNCHANGED <<core, risk, target, ln, watcher, reader, optimizer, registry, fraud>>

\* PaymentOrchestrator.monitorPayment lines 221-237 on that verdict and the
\* watcher's status: release is the call of processPayment.
Gate_Decide ==
    /\ gate.pc = "assessed"
    /\ gate' = [gate EXCEPT !.pc = "decided",
                            !.release = shouldProcessPayment(gate.safeToAccept, gate.status)]
    /\ UNCHANGED <<core, risk, target, ln, watcher, reader, optimizer, registry, fraud>>

NextGate ==
    \/ Gate_GetTransactionStatus
    \/ Gate_Decide

SpecGate == InitGate /\ [][NextGate]_vars

\* AIDoubleSpendDetectionService.getTransactionStatus lines 332-334: two calls
\* of getTransactionData, one for `confirmations` and one inside
\* analyzeTransaction, whose four checks give the alerts.  The mock draws the
\* confirmations anew in each call.
InitObservations ==
    /\ isDevelopment = TRUE
    /\ invoice = NoInvoice
    /\ lnStatus = "none"
    /\ transactions = [c \in Tasks |-> NoTx]
    /\ tasks = [c \in Tasks |-> IdleTask]
    /\ ledger = [c \in Tasks |-> NoLedger]
    /\ fraud = NoFraud
    /\ registry = NoRegistry
    /\ optimizer = NoOptimizer
    /\ reader = NoReader
    /\ risk = NoRisk
    /\ target = NoTarget
    /\ ln = NoLn
    /\ watcher = NoWatcher
    /\ \E conflicting \in BOOLEAN, isRBFEnabled \in BOOLEAN, originalTx \in BOOLEAN,
          hasMultipleOutputs \in BOOLEAN, confirmations \in GateMockConfs,
          analysisConfirmations \in GateMockConfs, status \in {"confirmed", "pending"} :
          gate = [NoGate EXCEPT !.pc = "input",
                                !.alerts = analyzeTransaction(conflicting, isRBFEnabled,
                                               originalTx, hasMultipleOutputs,
                                               analysisConfirmations),
                                !.confirmations = confirmations,
                                !.analysisConfirmations = analysisConfirmations,
                                !.status = status]

SpecObservations == InitObservations /\ [][NextGate]_vars

\* ------------------------------------------- createInvoice with the Risk Gate
\* The factor scores the five analyzers can hand to calculateOverallRisk: the
\* ends of their range and scores that put the overall score on and just above
\* the two decision thresholds.
RiskFactorValues == {0, ReviewThreshold, ReviewThreshold + 4, BlockThreshold,
                     BlockThreshold + 4, 100}

\* Mutant of calculateOverallRisk: reputation counted as a credit.
calculateOverallRisk_inverted(risks) ==
    (risks.velocityRisk * VelocityWeight + risks.amountRisk * AmountWeight
     + risks.locationRisk * LocationWeight + risks.behaviorRisk * BehaviorWeight
     + (100 - risks.reputationRisk) * ReputationWeight + 50) \div 100

\* AIFraudDetectionService.calculateOverallRisk: Math.round of the weighted sum
\* (weights in 1/100; Math.round rounds a half up).
calculateOverallRisk(risks) ==
    (risks.velocityRisk * VelocityWeight + risks.amountRisk * AmountWeight
     + risks.locationRisk * LocationWeight + risks.behaviorRisk * BehaviorWeight
     + risks.reputationRisk * ReputationWeight + 50) \div 100

\* Mutant of requiresManualReview: the threshold itself triggers a review.
requiresManualReview_atThreshold(overallRisk) == overallRisk >= ReviewThreshold

\* AIFraudDetectionService.analyzeTransaction line 77
requiresManualReview(overallRisk) == overallRisk > ReviewThreshold

\* AIFraudDetectionService.analyzeTransaction line 78
blockTransaction(overallRisk) == overallRisk > BlockThreshold

InitRisk ==
    /\ isDevelopment = TRUE
    /\ invoice = NoInvoice
    /\ lnStatus = "none"
    /\ transactions = [c \in Tasks |-> NoTx]
    /\ tasks = [c \in Tasks |-> IdleTask]
    /\ ledger = [c \in Tasks |-> NoLedger]
    /\ fraud = NoFraud
    /\ registry = NoRegistry
    /\ optimizer = NoOptimizer
    /\ reader = NoReader
    /\ gate = NoGate
    /\ target = NoTarget
    /\ ln = NoLn
    /\ watcher = NoWatcher
    /\ \E metadata \in BOOLEAN :
          risk = [NoRisk EXCEPT !.pc = "request", !.hasMetadata = metadata]

\* createInvoice lines 35-37 without request_metadata: no assessment is made.
Risk_NoMetadata ==
    /\ risk.pc = "request"
    /\ ~risk.hasMetadata
    /\ risk' = [risk EXCEPT !.pc = "insert"]
    /\ UNCHANGED <<core, gate, target, ln, watcher, reader, optimizer, registry, fraud>>

\* createInvoice lines 37-61 with request_metadata: analyzeTransaction throws
\* and riskAssessment stays null, or it returns its verdict; the throw of
\* lines 52-56 on blockTransaction is inside the same try and is caught by
\* line 58, so either way the call goes on to the insert.
Risk_Assess ==
    /\ risk.pc = "request"
    /\ risk.hasMetadata
    /\ \/ risk' = [risk EXCEPT !.pc = "insert", !.threw = TRUE]
       \/ \E risks \in [RiskFactorNames -> RiskFactorValues] :
            LET overallRisk == calculateOverallRisk(risks)
            IN risk' = [risk EXCEPT !.pc = "insert", !.hasAssessment = TRUE,
                          !.riskFactors = risks, !.overallRisk = overallRisk,
                          !.requiresManualReview = requiresManualReview(overallRisk),
                          !.blockTransaction = blockTransaction(overallRisk)]
    /\ UNCHANGED <<core, gate, target, ln, watcher, reader, optimizer, registry, fraud>>

\* createInvoice lines 63-103: the insert and the return of the stored invoice
\* together with riskAssessment.
Risk_CreateInvoice ==
    /\ risk.pc = "insert"
    /\ \E pref \in SettlementPreferences, amt \in InvoiceAmounts :
          StoreInvoice(pref, amt,
                       requiresReviewOf(risk.hasAssessment, risk.requiresManualReview),
                       FALSE)
    /\ risk' = [risk EXCEPT !.pc = "returned", !.returnedAssessment = risk.hasAssessment]
    /\ UNCHANGED <<isDevelopment, transactions, tasks, ledger>>
    /\ UNCHANGED <<gate, target, ln, watcher, reader, optimizer, registry, fraud>>

NextRisk ==
    \/ Risk_NoMetadata
    \/ Risk_Assess
    \/ Risk_CreateInvoice

SpecRisk == InitRisk /\ [][NextRisk]_vars

\* ------------------------------------------------- generatePaymentAddress
\* One invoice, created with or without a Lightning invoice (createInvoice
\* lines 63-93), and the generatePaymentAddress calls made for it.
InitTarget ==
    /\ isDevelopment = TRUE
    /\ invoice = NoInvoice
    /\ lnStatus = "none"
    /\ transactions = [c \in Tasks |-> NoTx]
    /\ tasks = [c \in Tasks |-> IdleTask]
    /\ ledger = [c \in Tasks |-> NoLedger]
    /\ fraud = NoFraud
    /\ registry = NoRegistry
    /\ optimizer = NoOptimizer
    /\ reader = NoReader
    /\ gate = NoGate
    /\ risk = NoRisk
    /\ ln = NoLn
    /\ watcher = NoWatcher
    /\ \E lightning \in BOOLEAN :
          target = [NoTarget EXCEPT !.pc = "stored",
                       !.lightning_payment_request = IF lightning THEN 1 ELSE 0,
                       !.generated = IF lightning THEN 1 ELSE 0]

\* generatePaymentAddress lines 121-146: the stored Lightning request is
\* returned when there is one; otherwise lightningService.createInvoice is asked
\* and its request stored.
Target_GenerateLightning ==
    /\ target.pc = "stored"
    /\ IF target.lightning_payment_request # 0
       THEN target' = [target EXCEPT !.lastCurrency = "LIGHTNING",
                                     !.lastReturned = target.lightning_payment_request]
       ELSE /\ target.generated < MaxGenerated
            /\ target' = [target EXCEPT !.lightning_payment_request = target.generated + 1,
                                        !.generated = target.generated + 1,
                                        !.lastCurrency = "LIGHTNING",
                                        !.lastReturned = target.generated + 1]
    /\ UNCHANGED <<core, gate, risk, ln, watcher, reader, optimizer, registry, fraud>>

\* generatePaymentAddress lines 148-169: nownodesService is asked for an address
\* of the currency, the address is written to the invoice and returned.
Target_GenerateAddress(cryptoCurrency) ==
    /\ target.pc = "stored"
    /\ target.generated < MaxGenerated
    /\ target' = [target EXCEPT !.payment_address = target.generated + 1,
                                !.address_currency = cryptoCurrency,
                                !.generated = target.generated + 1,
                                !.lastCurrency = cryptoCurrency,
                                !.lastReturned = target.generated + 1]
    /\ UNCHANGED <<core, gate, risk, ln, watcher, reader, optimizer, registry, fraud>>

NextTarget ==
    \/ Target_GenerateLightning
    \/ \E cryptoCurrency \in {"BTC", "USDT"} : Target_GenerateAddress(cryptoCurrency)

SpecTarget == InitTarget /\ [][NextTarget]_vars

\* ------------------------------------------------- one Lightning invoice
\* lightningService.createInvoice lines 59-99: a pending invoice whose
\* expiry_time lies ahead of the clock.
InitLn ==
    /\ isDevelopment = TRUE
    /\ invoice = NoInvoice
    /\ lnStatus = "none"
    /\ transactions = [c \in Tasks |-> NoTx]
    /\ tasks = [c \in Tasks |-> IdleTask]
    /\ ledger = [c \in Tasks |-> NoLedger]
    /\ fraud = NoFraud
    /\ registry = NoRegistry
    /\ optimizer = NoOptimizer
    /\ reader = NoReader
    /\ gate = NoGate
    /\ risk = NoRisk
    /\ target = NoTarget
    /\ watcher = NoWatcher
    /\ \E expiry \in 1..(MaxTime - 1) :
          ln = [NoLn EXCEPT !.status = "pending", !.expiry_time = expiry,
                            !.loop = "armed"]

\* A second passes.
Ln_Tick ==
    /\ ln.now < MaxTime
    /\ ln' = [ln EXCEPT !.now = @ + 1]
    /\ UNCHANGED <<core, gate, risk, target, watcher, reader, optimizer, registry, fraud>>

\* LightningService.getInvoiceStatus, as called by checkPayment, by
\* PaymentOrchestrator.getTransactionStatus and by the status route.
Ln_GetInvoiceStatus ==
    /\ ln.status # "none"
    /\ LET pastExpiry == ln.now > ln.expiry_time
           answer == readStatus(ln.status, pastExpiry)
       IN ln' = [ln EXCEPT !.status = storedStatus(ln.status, pastExpiry),
                           !.lastRead = answer,
                           !.expiredReads = IF answer = "expired" /\ @ < 2 THEN @ + 1 ELSE @]
    /\ UNCHANGED <<core, gate, risk, target, watcher, reader, optimizer, registry, fraud>>

\* Mutant of canMarkPaid: only an invoice already paid is refused.
canMarkPaid_unlessPaid(status) == status # "paid"

\* LightningService.markInvoiceAsPaid lines 170-173: the call goes on only for
\* a stored invoice that is pending; its expiry_time is not looked at.
canMarkPaid(status) == status = "pending"

\* LightningService.markInvoiceAsPaid without a preimage: a refused call returns
\* false and changes nothing; an accepted one stores `paid`, sets the payment
\* record and returns true.  lateMark is the answer to the last call made after
\* expiry_time.
Ln_MarkInvoiceAsPaid ==
    /\ ln.markCalls < MaxMarkCalls
    /\ LET accepted == canMarkPaid(ln.status)
           late == ln.now > ln.expiry_time
       IN ln' = [ln EXCEPT !.status = IF accepted THEN "paid" ELSE @,
                           !.markCalls = @ + 1,
                           !.markedTrue = IF accepted THEN @ + 1 ELSE @,
                           !.payments = IF accepted THEN @ + 1 ELSE @,
                           !.lateMark = IF late THEN (IF accepted THEN "true" ELSE "false")
                                        ELSE @]
    /\ UNCHANGED <<core, gate, risk, target, watcher, reader, optimizer, registry, fraud>>

\* Mutant of loopAfter: the timer is re-armed for every status but `paid`.
loopAfter_rearmUnlessPaid(status) == IF status = "paid" THEN "processing" ELSE "armed"

\* PaymentOrchestrator.monitorLightningPayment lines 250-258: what checkPayment
\* does with the status it read: `paid` goes to processLightningPayment and
\* returns, `pending` re-arms the 5-second timer, anything else ends the loop.
loopAfter(status) ==
    IF status = "paid" THEN "processing"
    ELSE IF status = "pending" THEN "armed"
    ELSE "ended"

\* One run of checkPayment: lightningService.getInvoiceStatus, then the branch.
Ln_CheckPayment ==
    /\ ln.loop = "armed"
    /\ LET pastExpiry == ln.now > ln.expiry_time
           answer == readStatus(ln.status, pastExpiry)
       IN ln' = [ln EXCEPT !.status = storedStatus(ln.status, pastExpiry),
                           !.lastRead = answer,
                           !.expiredReads = IF answer = "expired" /\ @ < 2 THEN @ + 1 ELSE @,
                           !.loopRead = answer,
                           !.loop = loopAfter(answer),
                           !.processCalls = IF loopAfter(answer) = "processing"
                                            THEN @ + 1 ELSE @]
    /\ UNCHANGED <<core, gate, risk, target, watcher, reader, optimizer, registry, fraud>>

\* processLightningPayment returns or throws into the catch of line 259:
\* checkPayment ends without re-arming the timer.
Ln_ProcessLightningPaymentEnds ==
    /\ ln.loop = "processing"
    /\ ln' = [ln EXCEPT !.loop = "ended"]
    /\ UNCHANGED <<core, gate, risk, target, watcher, reader, optimizer, registry, fraud>>

NextLn ==
    \/ Ln_Tick
    \/ Ln_GetInvoiceStatus
    \/ Ln_MarkInvoiceAsPaid
    \/ Ln_CheckPayment
    \/ Ln_ProcessLightningPaymentEnds

SpecLn == InitLn /\ [][NextLn]_vars

\* The clock advances, the timer set by setTimeout fires, and the awaited
\* processLightningPayment settles.
FairSpecLn ==
    /\ SpecLn
    /\ WF_vars(Ln_Tick)
    /\ WF_vars(Ln_CheckPayment)
    /\ WF_vars(Ln_ProcessLightningPaymentEnds)

\* ------------------------------------------------ the Confirmation Monitor
\* Confirmation counts over the whole range of both mocks, which holds both
\* currencies' thresholds.
WatcherUnitConfs == 0..(MockUsdtConfRange - 1)

\* NownodesService.monitorBitcoinTransaction / monitorUSDTTransaction
monitorCurrencyTransaction(currency, dev, expectedAmount) ==
    IF currency = "BTC"
    THEN monitorTransaction(BtcMinConf, dev, expectedAmount,
                            WatcherUnitConfs \cap 0..(MockBtcConfRange - 1), WatcherUnitConfs)
    ELSE monitorTransaction(UsdtMinConf, dev, expectedAmount,
                            WatcherUnitConfs \cap 0..(MockUsdtConfRange - 1), WatcherUnitConfs)

InitWatcher ==
    /\ isDevelopment \in BOOLEAN
    /\ invoice = NoInvoice
    /\ lnStatus = "none"
    /\ transactions = [c \in Tasks |-> NoTx]
    /\ tasks = [c \in Tasks |-> IdleTask]
    /\ ledger = [c \in Tasks |-> NoLedger]
    /\ fraud = NoFraud
    /\ registry = NoRegistry
    /\ optimizer = NoOptimizer
    /\ reader = NoReader
    /\ gate = NoGate
    /\ risk = NoRisk
    /\ target = NoTarget
    /\ ln = NoLn
    /\ \E currency \in {"BTC", "USDT"} :
          watcher = [NoWatcher EXCEPT !.pc = "ask", !.currency = currency]

\* The watcher is asked about an address: outside development the request may
\* fail and the watcher throws; otherwise it answers.
Watcher_Monitor ==
    /\ watcher.pc = "ask"
    /\ \/ /\ ~isDevelopment
          /\ watcher' = [watcher EXCEPT !.pc = "failed", !.outcome = "error"]
       \/ \E amt \in InvoiceAmounts :
          \E mr \in monitorCurrencyTransaction(watcher.currency, isDevelopment, amt) :
            watcher' = [watcher EXCEPT !.pc = "answered", !.outcome = "answered",
                           !.txHash = mr.txHash, !.confirmations = mr.confirmations,
                           !.status = mr.status]
    /\ UNCHANGED <<core, gate, risk, target, ln, reader, optimizer, registry, fraud>>

\* PaymentOrchestrator.monitorPayment lines 190-237 on the answer of the Bitcoin
\* watcher (cryptoCurrency is the constant "BTC" there) and the gate's verdict.
Watcher_Decide ==
    /\ watcher.pc = "answered"
    /\ watcher.currency = "BTC"
    /\ \E safe \in BOOLEAN :
          watcher' = [watcher EXCEPT !.pc = "decided", !.safeToAccept = safe,
                         !.called = watchOutcome(watcher.txHash, watcher.status, safe)]
    /\ UNCHANGED <<core, gate, risk, target, ln, reader, optimizer, registry, fraud>>

NextWatcher ==
    \/ Watcher_Monitor
    \/ Watcher_Decide

SpecWatcher == InitWatcher /\ [][NextWatcher]_vars

\* ------------------------------------------------------ getTransactionStatus
InvoiceStatuses == {"pending", "pending_review", "paid", "expired", "cancelled"}
TransactionStatuses == {"pending", "processing", "completed", "failed"}

\* The rows of the transactions table with the invoice's id, latest first
\* (rows are created in the order of the slots).
RECURSIVE rowsUpTo(_, _)
rowsUpTo(txs, n) ==
    IF n = 0 THEN <<>>
    ELSE IF txs[n].status = "none" THEN rowsUpTo(txs, n - 1)
    ELSE <<txs[n]>> \o rowsUpTo(txs, n - 1)

transactionsOf(txs) == rowsUpTo(txs, MaxTasks)

\* Mutant of overallStatus: an expired or cancelled invoice is not told apart
\* from one awaiting payment.
overallStatus_noFailed(invoiceStatus, rows) ==
    IF invoiceStatus = "paid" /\ Len(rows) > 0 THEN rows[1].status
    ELSE "pending"

\* PaymentOrchestrator.getTransactionStatus lines 584-592
overallStatus(invoiceStatus, rows) ==
    IF invoiceStatus = "paid" /\ Len(rows) > 0 THEN rows[1].status
    ELSE IF invoiceStatus \in {"expired", "cancelled"} THEN "failed"
    ELSE "pending"

InitStatus ==
    /\ isDevelopment \in BOOLEAN
    /\ \/ invoice = NoInvoice /\ lnStatus = "none"
       \/ \E st \in InvoiceStatuses, hash \in BOOLEAN :
            /\ invoice = [NoInvoice EXCEPT !.status = st, !.settlement_preference = "mpesa",
                                           !.amount = 1, !.lightning_payment_hash = hash]
            /\ lnStatus \in (IF hash THEN {"none", "pending", "paid", "expired"} ELSE {"none"})
    /\ \E s1 \in TransactionStatuses \cup {"none"}, s2 \in TransactionStatuses \cup {"none"} :
         /\ s1 = "none" => s2 = "none"
         /\ invoice = NoInvoice => s1 = "none"
         /\ transactions = [c \in Tasks |->
                IF c = 1 /\ s1 # "none" THEN [NoTx EXCEPT !.crypto_currency = "BTC", !.status = s1]
                ELSE IF c = 2 /\ s2 # "none"
                THEN [NoTx EXCEPT !.crypto_currency = "BTC", !.status = s2]
                ELSE NoTx]
    /\ tasks = [c \in Tasks |-> IdleTask]
    /\ ledger = [c \in Tasks |-> NoLedger]
    /\ fraud = NoFraud
    /\ registry = NoRegistry
    /\ optimizer = NoOptimizer
    /\ reader = NoReader
    /\ gate = NoGate
    /\ risk = NoRisk
    /\ target = NoTarget
    /\ ln = NoLn
    /\ watcher = NoWatcher

\* PaymentOrchestrator.getTransactionStatus: the invoice is selected, the
\* Lightning invoice is read through lightningService.getInvoiceStatus (which
\* stores `expired` for a pending invoice past its expiry), the transactions
\* are selected and the answer is composed.  Either select may fail.
Status_GetTransactionStatus ==
    /\ reader.reads < MaxReads
    /\ \/ /\ invoice.status = "none"
          /\ reader' = [NoReader EXCEPT !.reads = reader.reads + 1, !.outcome = "error"]
          /\ UNCHANGED lnStatus
       \/ /\ invoice.status # "none"
          /\ \E pastExpiry \in BOOLEAN, txError \in BOOLEAN :
               /\ lnStatus' = IF invoice.lightning_payment_hash
                              THEN storedStatus(lnStatus, pastExpiry) ELSE lnStatus
               /\ reader' =
                    IF txError
                    THEN [NoReader EXCEPT !.reads = reader.reads + 1, !.outcome = "error"]
                    ELSE [reads |-> reader.reads + 1, outcome |-> "returned",
                          invoice |-> invoice,
                          transactions |-> transactionsOf(transactions),
                          status |-> overallStatus(invoice.status, transactionsOf(transactions)),
                          lightningInvoice |->
                              IF invoice.lightning_payment_hash
                              THEN readStatus(lnStatus, pastExpiry) ELSE "none"]
    /\ UNCHANGED <<isDevelopment, invoice, transactions, tasks, ledger>>
    /\ UNCHANGED <<gate, risk, target, ln, watcher, optimizer, registry, fraud>>

NextStatus == Status_GetTransactionStatus

SpecStatus == InitStatus /\ [][NextStatus]_vars

\* ------------------------------------------- the Conversion Timing Optimizer
\* Values are kept exact: a confidence is a number of percent and a risk
\* adjustment a number of 1/2000, so a value V of the source is held as
\* V * PercentScale * AdjustmentScale.
PercentScale == 100
AdjustmentScale == 2000
HighRiskAdjustment == 900
MediumRiskAdjustment == 950
ExtremeVolatilityAdjustment == 850
HighRiskVolatility == 70
MediumRiskVolatility == 40
ExtremeVolatility == 80

\* Object.entries(weightedValues): the order the loop visits the timings in.
TimingOrder == <<"immediate", "wait_5min", "wait_15min", "wait_30min">>

\* calculateOptimalTiming lines 192-199
waitMinutes(timing) ==
    IF timing = "immediate" THEN 0
    ELSE IF timing = "wait_5min" THEN 5
    ELSE IF timing = "wait_15min" THEN 15
    ELSE 30

\* analyzeMarketConditions lines 257-258
riskLevelOf(volatilityIndex) ==
    IF volatilityIndex > HighRiskVolatility THEN "high"
    ELSE IF volatilityIndex > MediumRiskVolatility THEN "medium"
    ELSE "low"

\* calculateRiskAdjustment, in 1/2000
calculateRiskAdjustment(riskLevel, volatilityIndex) ==
    LET byLevel == IF riskLevel = "high" THEN (AdjustmentScale * HighRiskAdjustment) \div 1000
                   ELSE IF riskLevel = "medium"
                   THEN (AdjustmentScale * MediumRiskAdjustment) \div 1000
                   ELSE AdjustmentScale
    IN IF volatilityIndex > ExtremeVolatility
       THEN (byLevel * ExtremeVolatilityAdjustment) \div 1000
       ELSE byLevel

\* calculateOptimalTiming lines 163-181: weightedValues, times PercentScale
weightedValue(timing, amount, currentRate, predictedRates, confidence) ==
    IF timing = "immediate" THEN amount * currentRate * PercentScale
    ELSE amount * predictedRates[timing] * confidence[timing]

\* Mutant of isBetter: a timing that only equals the best value so far replaces it.
isBetter_orEqual(adjustedValue, bestValue) == adjustedValue >= bestValue

\* calculateOptimalTiming line 201: the comparison that replaces the best timing.
isBetter(adjustedValue, bestValue) == adjustedValue > bestValue

\* calculateOptimalTiming lines 187-205: the loop from its i-th timing on.
RECURSIVE bestFrom(_, _, _, _, _)
bestFrom(i, best, weighted, riskAdjustment, maxWaitTime) ==
    IF i > Len(TimingOrder) THEN best
    ELSE LET timing == TimingOrder[i]
             adjustedValue == weighted[timing] * riskAdjustment
         IN bestFrom(i + 1,
                     IF waitMinutes(timing) <= maxWaitTime
                        /\ isBetter(adjustedValue, best.bestValue)
                     THEN [bestTiming |-> timing, bestValue |-> adjustedValue]
                     ELSE best,
                     weighted, riskAdjustment, maxWaitTime)

\* AIExchangeOptimizationService.calculateOptimalTiming
calculateOptimalTiming(amount, currentRate, predictedRates, confidence, volatilityIndex, maxWaitTime) ==
    LET weighted == [t \in Timings |->
                        weightedValue(t, amount, currentRate, predictedRates, confidence)]
        riskAdjustment == calculateRiskAdjustment(riskLevelOf(volatilityIndex), volatilityIndex)
        currentValue == amount * currentRate * PercentScale * AdjustmentScale
        best == bestFrom(1, [bestTiming |-> "immediate",
                             bestValue |-> weighted["immediate"] * AdjustmentScale],
                         weighted, riskAdjustment, maxWaitTime)
    IN [recommendedTiming |-> best.bestTiming,
        estimatedSavings |-> best.bestValue - currentValue,
        confidenceLevel |-> IF best.bestTiming = "immediate" THEN 100
                            ELSE confidence[best.bestTiming]]

OptimizerRates == {100, 125, 150}
OptimizerConfidences == {80, 95}
OptimizerVolatilities == {MediumRiskVolatility, HighRiskVolatility, ExtremeVolatility,
                          ExtremeVolatility + 1}
OptimizerMaxWaits == {0, 5, 15, 30}

InitOptimizer ==
    /\ isDevelopment \in BOOLEAN
    /\ invoice = NoInvoice
    /\ lnStatus = "none"
    /\ transactions = [c \in Tasks |-> NoTx]
    /\ tasks = [c \in Tasks |-> IdleTask]
    /\ ledger = [c \in Tasks |-> NoLedger]
    /\ fraud = NoFraud
    /\ registry = NoRegistry
    /\ gate = NoGate
    /\ risk = NoRisk
    /\ target = NoTarget
    /\ ln = NoLn
    /\ watcher = NoWatcher
    /\ reader = NoReader
    /\ \E rates \in [Horizons -> OptimizerRates], conf \in [Horizons -> OptimizerConfidences],
          vol \in OptimizerVolatilities, maxWait \in OptimizerMaxWaits :
          optimizer = [NoOptimizer EXCEPT !.pc = "called", !.amount = 1, !.currentRate = 100,
                                          !.predictedRates = rates, !.confidence = conf,
                                          !.volatilityIndex = vol, !.maxWaitTime = maxWait]

Optimizer_CalculateOptimalTiming ==
    /\ optimizer.pc = "called"
    /\ LET r == calculateOptimalTiming(optimizer.amount, optimizer.currentRate,
                                       optimizer.predictedRates, optimizer.confidence,
                                       optimizer.volatilityIndex, optimizer.maxWaitTime)
       IN optimizer' = [optimizer EXCEPT !.pc = "returned",
                           !.recommendedTiming = r.recommendedTiming,
                           !.estimatedSavings = r.estimatedSavings,
                           !.confidenceLevel = r.confidenceLevel]
    /\ UNCHANGED <<core, gate, risk, target, ln, watcher, reader, registry, fraud>>

NextOptimizer == Optimizer_CalculateOptimalTiming

SpecOptimizer == InitOptimizer /\ [][NextOptimizer]_vars

\* ------------------------------------------- the Double-Spend Gate's registry
\* detectRBFAttempts lines 208-214: the find over rbfTransactions.  Its predicate
\* is `txHash !== transaction.hash && <a Promise>`; a Promise is truthy, so the
\* comparison of the senders inside it never decides anything.
findOriginalTx(rbfTransactions, hash) == rbfTransactions \ {hash} # {}

\* AIDoubleSpendDetectionService.analyzeTransaction on a monitored hash, lines
\* 81-126: getTransactionData (a mock drawing the confirmations), the four
\* checks (detectRBFAttempts adds the hash to rbfTransactions when the mock
\* flags it), then alerts, lastUpdateTime and status are stored.
Evaluate(reg, hash, conflicting, isRBFEnabled, hasMultipleOutputs, confirmations) ==
    LET rbf == IF isRBFEnabled THEN reg.rbfTransactions \cup {hash} ELSE reg.rbfTransactions
        alerts == analyzeTransaction(conflicting, isRBFEnabled, findOriginalTx(rbf, hash),
                                     hasMultipleOutputs, confirmations)
    IN [reg EXCEPT !.rbfTransactions = rbf,
                   !.now = reg.now + 1,
                   !.lastHash = hash,
                   !.lastConfirmations = confirmations,
                   !.monitoredTransactions[hash] =
                       [@ EXCEPT !.alerts = alerts,
                                 !.lastUpdateTime = reg.now + 1,
                                 !.status = determineTransactionStatus(alerts, confirmations)]]

\* The sender of each hash is what the chain reports for it; the shipped
\* getTransactionData answers one fixed sender for every hash.
InitMonitor ==
    /\ isDevelopment \in BOOLEAN
    /\ invoice = NoInvoice
    /\ lnStatus = "none"
    /\ transactions = [c \in Tasks |-> NoTx]
    /\ tasks = [c \in Tasks |-> IdleTask]
    /\ ledger = [c \in Tasks |-> NoLedger]
    /\ fraud = NoFraud
    /\ gate = NoGate
    /\ risk = NoRisk
    /\ target = NoTarget
    /\ ln = NoLn
    /\ watcher = NoWatcher
    /\ reader = NoReader
    /\ optimizer = NoOptimizer
    /\ \E from \in [Hashes -> Addresses] : registry = [NoRegistry EXCEPT !.fromAddress = from]

\* AIDoubleSpendDetectionService.startMonitoring: a new TransactionMonitoring is
\* stored under the hash, then analyzeTransaction runs on it.
Monitor_StartMonitoring(hash, invoiceId) ==
    /\ registry.now < MaxEvaluations
    /\ \E conflicting \in BOOLEAN, isRBFEnabled \in BOOLEAN, hasMultipleOutputs \in BOOLEAN,
          confirmations \in GateMockConfs :
          registry' = Evaluate(
              [registry EXCEPT !.monitoredTransactions[hash] =
                   [NoMonitoring EXCEPT !.invoiceId = invoiceId, !.status = "pending",
                                        !.mempoolEntryTime = registry.now + 1,
                                        !.lastUpdateTime = registry.now + 1]],
              hash, conflicting, isRBFEnabled, hasMultipleOutputs, confirmations)
    /\ UNCHANGED <<core, gate, risk, target, ln, watcher, reader, optimizer, fraud>>

\* AIDoubleSpendDetectionService.getTransactionStatus on a monitored hash: the
\* re-evaluation by analyzeTransaction.
Monitor_GetTransactionStatus(hash) ==
    /\ registry.now < MaxEvaluations
    /\ registry.monitoredTransactions[hash] # NoMonitoring
    /\ \E conflicting \in BOOLEAN, isRBFEnabled \in BOOLEAN, hasMultipleOutputs \in BOOLEAN,
          confirmations \in GateMockConfs :
          registry' = Evaluate(registry, hash, conflicting, isRBFEnabled,
                               hasMultipleOutputs, confirmations)
    /\ UNCHANGED <<core, gate, risk, target, ln, watcher, reader, optimizer, fraud>>

NextMonitor ==
    \/ \E hash \in Hashes, invoiceId \in InvoiceIds : Monitor_StartMonitoring(hash, invoiceId)
    \/ \E hash \in Hashes : Monitor_GetTransactionStatus(hash)

SpecMonitor == InitMonitor /\ [][NextMonitor]_vars

\* ----------------------------------------------- the Risk Gate's patterns
\* The requests assessed: location.country and userAgent may be absent ("none").
FraudRequests ==
    [merchantId : {"merchant_1", "merchant_2"}, amount : {100, 300},
     country : {"none", "Kenya", "Brazil", "VPN"}, userAgent : {"none", "Mozilla", "Safari"}]

HighRiskCountries == {"Unknown", "VPN", "Tor"}

\* AIFraudDetectionService.analyzeLocationRisk
analyzeLocationRisk(data, pattern) ==
    IF data.country = "none" THEN 25
    ELSE IF pattern = NoPattern THEN 30
    ELSE IF data.country \notin pattern.commonLocations THEN 45
    ELSE IF data.country \in HighRiskCountries THEN 70
    ELSE 10

RECURSIVE SumAmounts(_)
SumAmounts(history) ==
    IF history = <<>> THEN 0 ELSE Head(history).amount + SumAmounts(Tail(history))

\* AIFraudDetectionService.updateMerchantPattern: the pattern of data.merchantId
\* after the request was pushed onto its history.
updateMerchantPattern(data, pattern, history) ==
    IF pattern = NoPattern THEN pattern
    ELSE [amountSum |-> SumAmounts(history),
          transactionCount |-> Len(history),
          commonLocations |-> IF data.country # "none"
                              THEN pattern.commonLocations \cup {data.country}
                              ELSE pattern.commonLocations,
          deviceFingerprints |-> IF data.userAgent # "none"
                                 THEN pattern.deviceFingerprints \cup {data.userAgent}
                                 ELSE pattern.deviceFingerprints]

InitFraud ==
    /\ isDevelopment \in BOOLEAN
    /\ invoice = NoInvoice
    /\ lnStatus = "none"
    /\ transactions = [c \in Tasks |-> NoTx]
    /\ tasks = [c \in Tasks |-> IdleTask]
    /\ ledger = [c \in Tasks |-> NoLedger]
    /\ gate = NoGate
    /\ risk = NoRisk
    /\ target = NoTarget
    /\ ln = NoLn
    /\ watcher = NoWatcher
    /\ reader = NoReader
    /\ optimizer = NoOptimizer
    /\ registry = NoRegistry
    /\ fraud = NoFraud

\* AIFraudDetectionService.analyzeTransaction: the risk factors are computed
\* from the patterns as they stand, then storeTransactionPattern pushes the
\* request onto the merchant's history and updates the merchant's pattern.
Fraud_AnalyzeTransaction(data) ==
    /\ fraud.assessments < MaxAssessments
    /\ LET m == data.merchantId
           pattern == fraud.merchantPatterns[m]
           history == Append(fraud.transactionHistory[m], data)
       IN fraud' = [fraud EXCEPT
               !.transactionHistory[m] = history,
               !.merchantPatterns[m] = updateMerchantPattern(data, pattern, history),
               !.assessments = @ + 1,
               !.lastData = data,
               !.lastHadPattern = pattern # NoPattern,
               !.lastWasCommon = data.country \in pattern.commonLocations,
               !.locationRisk = analyzeLocationRisk(data, pattern)]
    /\ UNCHANGED <<core, gate, risk, target, ln, watcher, reader, optimizer, registry>>

NextFraud == \E data \in FraudRequests : Fraud_AnalyzeTransaction(data)

SpecFraud == InitFraud /\ [][NextFraud]_vars

\* ------------------------------------------------------------------ claims
\* C1: at every instant at most one Transaction of the Invoice has status
\* `processing`, whatever the interleaving of the calls made for it.
C1_AtMostOneProcessing ==
    Cardinality({ c \in Tasks : transactions[c].status = "processing" }) <= 1

\* C2: a processPayment / processLightningPayment call that finds the Invoice
\* with a Transaction in `processing` or `completed` creates no Transaction and
\* calls neither the conversion provider nor the payout rail.
C2_SettlementIdempotent ==
    \A c \in Tasks :
        tasks[c].hadActive =>
            /\ transactions[c] = NoTx
            /\ ledger[c].conversions = 0
            /\ ledger[c].payouts = 0

\* C3: the Invoice's status history is pending|pending_review, followed by at
\* most one of paid, expired, cancelled; the write of `paid` happens at most once.
C3_StatusHistory ==
    LET h == invoice.history
    IN /\ Len(h) <= 2
       /\ Len(h) >= 1 => h[1] \in {"pending", "pending_review"}
       /\ Len(h) = 2 => h[2] \in {"paid", "expired", "cancelled"}
       /\ Cardinality({ i \in DOMAIN h : h[i] = "paid" }) <= 1

\* C4: a monitorPayment call goes on to processPayment, and a chain Transaction
\* is inserted, only when in that call the watcher reported `confirmed` and the
\* gate reported safeToAccept; a call that holds the payment back has created
\* no Transaction, called no settlement, and its last step changed neither the
\* Invoice nor any Transaction.
C4_ReleaseOnlyConfirmedAndSafe ==
    /\ [](\A c \in Tasks :
            /\ tasks[c].pc \in {"pp_select", "pp_insert", "pp_paid"} =>
                   tasks[c].monitorStatus = "confirmed" /\ tasks[c].safeToAccept
            /\ tasks[c].result = "held" =>
                   transactions[c] = NoTx /\ ledger[c] = NoLedger)
    /\ [][\A c \in Tasks :
            /\ (transactions[c] = NoTx /\ transactions'[c] # NoTx
                /\ transactions'[c].crypto_currency = "BTC") =>
                   tasks[c].monitorStatus = "confirmed" /\ tasks[c].safeToAccept
            /\ (tasks[c].pc = "watch" /\ tasks'[c].result = "held") =>
                   invoice' = invoice /\ transactions' = transactions]_vars

\* C4 witness: one call held the payment back and left the Invoice pending,
\* another was released with `confirmed` and safeToAccept.
C4_Witness ==
    \E c, d \in Tasks :
        /\ tasks[c].result = "held" /\ transactions[c] = NoTx
        /\ invoice.status = "pending"
        /\ tasks[d].pc = "pp_select" /\ tasks[d].monitorStatus = "confirmed"
        /\ tasks[d].safeToAccept

\* C5: processPayment is not called for a payment with 0 confirmations, and
\* every BTC Transaction it records has at least 1 confirmation.
C5_MinimumConfirmations ==
    \A c \in Tasks :
        /\ tasks[c].pc \in {"pp_select", "pp_insert"} => tasks[c].confirmations >= 1
        /\ transactions[c].crypto_currency = "BTC" =>
               transactions[c].blockchain_confirmations >= 1

\* C8: the amount handed to the payout rail is gross x (1 - providerFee) x
\* (1 - 0.025), nothing added: 0.01 BTC at 5,500,000 KES/BTC and provider fee
\* 0.015 pays out 52,820.625 KES.
C8_PayoutFormula ==
    \A c \in Tasks :
        (ledger[c].payouts > 0 /\ ledger[c].thrownAt = "none") =>
            LET afterProvider == ledger[c].gross - (ledger[c].gross * ledger[c].feeRate) \div 1000
                afterService == afterProvider - (afterProvider * 25) \div 1000
            IN /\ ledger[c].paidOut = afterService
               /\ (ledger[c].gross = 55000000 /\ ledger[c].feeRate = 15) =>
                      ledger[c].paidOut = 52820625

\* C9: when a step of a fiat settlement throws, no conversion or payout call
\* follows it in that attempt, the Transaction ends `failed` and the call ends
\* with the error.
C9_FailClosed ==
    \A c \in Tasks :
        /\ ledger[c].thrownAt # "none" => tasks[c].pc \in {"k_catch", "done"}
        /\ ledger[c].thrownAt = "convert" =>
               ledger[c].conversions = 1 /\ ledger[c].payouts = 0
        /\ ledger[c].thrownAt = "send" =>
               ledger[c].conversions = 1 /\ ledger[c].payouts = 1 /\ ledger[c].paidOut = 0
        /\ (ledger[c].thrownAt # "none" /\ tasks[c].pc = "done") =>
               transactions[c].status = "failed" /\ tasks[c].result = "error"

\* C9 witness: a settlement whose payout call threw has ended.
C9_Witness ==
    \E c \in Tasks :
        /\ ledger[c].thrownAt = "send" /\ tasks[c].pc = "done"
        /\ transactions[c].status = "failed" /\ ledger[c].conversions = 1

\* C10: a processPayment / processLightningPayment call that finds the Invoice
\* already `paid` or `expired` creates no Transaction, dispatches no settlement
\* and raises no error.
C10_LateConfirmationNoOp ==
    \A c \in Tasks :
        tasks[c].seenStatus \in {"paid", "expired"} =>
            /\ transactions[c] = NoTx
            /\ ledger[c] = NoLedger
            /\ tasks[c].pc \notin {"k_convert", "k_send", "k_update_tx",
                                   "k_update_invoice", "k_catch", "b_update"}

\* C6: isSafeToAccept(A, c) is false if A has a critical alert; otherwise false
\* if A has a high alert and c < 3; otherwise false if A has a medium alert and
\* c < 1; otherwise true.
C6_Ladder ==
    gate.pc \in {"assessed", "decided"} =>
        LET has(sev) == \E i \in DOMAIN gate.alerts : gate.alerts[i].severity = sev
            expected == IF has("critical") THEN FALSE
                        ELSE IF has("high") /\ gate.confirmations < 3 THEN FALSE
                        ELSE IF has("medium") /\ gate.confirmations < 1 THEN FALSE
                        ELSE TRUE
        IN gate.safeToAccept = expected

\* C6 witness: a high alert behind a medium one, 3 confirmations, found safe.
C6_Witness ==
    /\ gate.pc = "assessed"
    /\ Len(gate.alerts) = 2
    /\ gate.alerts[1].severity = "medium" /\ gate.alerts[2].severity = "high"
    /\ gate.confirmations = 3
    /\ gate.safeToAccept

\* C7: with a critical alert among the alerts, safeToAccept is false at every
\* confirmation count and monitorPayment does not call processPayment.
C7_CriticalNeverSafe ==
    (gate.pc \in {"assessed", "decided"}
     /\ \E i \in DOMAIN gate.alerts : gate.alerts[i].severity = "critical") =>
        ~gate.safeToAccept /\ ~gate.release

\* C7 witness: a critical alert, 100 confirmations, the watcher's `confirmed`,
\* and the decision taken.
C7_Witness ==
    /\ gate.pc = "decided"
    /\ \E i \in DOMAIN gate.alerts : gate.alerts[i].severity = "critical"
    /\ gate.confirmations = ManyConfirmations
    /\ gate.status = "confirmed"
    /\ ~gate.release

C13_AssessmentErrorNonFatal ==
    risk.threw =>
        /\ risk.pc \in {"insert", "returned"}
        /\ ~risk.hasAssessment
        /\ risk.pc = "returned" =>
               invoice.status = "pending" /\ ~risk.returnedAssessment

\* C13 witness: the assessment threw and the call returned its invoice.
C13_Witness ==
    risk.pc = "returned" /\ risk.threw /\ invoice.status = "pending"

\* C14: an Invoice created without risk metadata is stored with status
\* `pending`; in general the stored status is `pending_review` exactly when a
\* verdict with requiresManualReview = true was obtained, `pending` otherwise.
C14_InitialStatus ==
    risk.pc = "returned" =>
        /\ ~risk.hasMetadata => invoice.status = "pending"
        /\ invoice.status = IF risk.hasAssessment /\ risk.requiresManualReview
                            THEN "pending_review" ELSE "pending"

\* C14 witness: a request without metadata has been stored as `pending`.
C14_Witness ==
    risk.pc = "returned" /\ ~risk.hasMetadata /\ invoice.status = "pending"

\* C15: requiresManualReview iff overallRisk > 70, blockTransaction iff
\* overallRisk > 85; every block also requires a review.
C15_Decision ==
    risk.hasAssessment =>
        /\ risk.requiresManualReview <=> risk.overallRisk > 70
        /\ risk.blockTransaction <=> risk.overallRisk > 85
        /\ risk.blockTransaction => risk.requiresManualReview

\* C15 witness: an overall score of exactly 70, neither reviewed nor blocked.
C15_Witness ==
    /\ risk.hasAssessment
    /\ risk.overallRisk = 70
    /\ ~risk.requiresManualReview /\ ~risk.blockTransaction

\* C16: the overall score is the rounded weighted sum (0.25, 0.20, 0.15, 0.25,
\* 0.15), lies in 0..100, and raising any one factor with the others fixed
\* never lowers it.
C16_MonotoneScore ==
    risk.hasAssessment =>
        LET f == risk.riskFactors
            sum == 25 * f.velocityRisk + 20 * f.amountRisk + 15 * f.locationRisk
                   + 25 * f.behaviorRisk + 15 * f.reputationRisk
        IN /\ risk.overallRisk \in 0..100
           /\ 100 * risk.overallRisk - sum \in (-50)..50
           /\ \A n \in RiskFactorNames : \A v \in 0..100 :
                  v >= f[n] =>
                      calculateOverallRisk([f EXCEPT ![n] = v]) >= risk.overallRisk

\* C16 witness: a verdict with factors strictly inside the range.
C16_Witness ==
    /\ risk.hasAssessment
    /\ risk.riskFactors.reputationRisk = 70
    /\ risk.riskFactors.velocityRisk = 74
    /\ risk.overallRisk = 71

\* C11: once the Invoice is `expired` or `cancelled`, no call processes it any
\* further: its status stays as it is (it never becomes `paid`) and no
\* Transaction is inserted for it.
C11_ExpiredStopsProcessing ==
    [][invoice.status \in {"expired", "cancelled"} =>
          /\ invoice'.status = invoice.status
          /\ \A c \in Tasks : transactions[c] = NoTx => transactions'[c] = NoTx]_vars

\* C17: a generatePaymentAddress call for a currency whose target is already
\* stored on the Invoice returns that target, asks no collaborator for a new
\* one and leaves the stored targets unchanged.
C17_TargetIdempotent ==
    [][LET currency == target'.lastCurrency
           existing == IF currency = "LIGHTNING" THEN target.lightning_payment_request
                       ELSE IF target.address_currency = currency
                            THEN target.payment_address ELSE 0
       IN existing # 0 =>
              /\ target'.lastReturned = existing
              /\ target'.generated = target.generated
              /\ target'.payment_address = target.payment_address
              /\ target'.lightning_payment_request = target.lightning_payment_request]_vars

\* C18: a read of a pending Lightning invoice past its expiry_time answers
\* `expired` and leaves it `expired`; from then on the invoice stays `expired`
\* (never `pending` or `paid` again) and every read answers `expired`.
C18_ExpiryFlipIdempotent ==
    /\ [](ln.lastRead = "expired" => ln.status = "expired")
    /\ [][/\ ln.status = "expired" => ln'.status = "expired"
          /\ (ln.status = "pending" /\ ln.now > ln.expiry_time
              /\ ln'.lastRead # "none" /\ ln'.now = ln.now /\ ln'.status # "paid") =>
                 ln'.lastRead = "expired" /\ ln'.status = "expired"
          /\ (ln.status = "expired" /\ ln'.now = ln.now) =>
                 ln'.lastRead = "expired"]_vars

\* C18 witness: the expired invoice has been read at least twice.
C18_Witness ==
    ln.status = "expired" /\ ln.expiredReads = 2 /\ ln.lastRead = "expired"

\* C19: for a matching transaction the watcher answers `confirmed` exactly when
\* the confirmations reach the currency's threshold (BTC 1, USDT 6), and
\* `pending` otherwise.
C19_ConfirmedIffThreshold ==
    (watcher.outcome = "answered" /\ watcher.txHash) =>
        /\ watcher.status \in {"confirmed", "pending"}
        /\ watcher.status = "confirmed" <=>
               watcher.confirmations >= (IF watcher.currency = "BTC" THEN 1 ELSE 6)

\* C20: when the watcher fails or finds no matching transaction, no status
\* `confirmed` comes out of it and monitorPayment does not call processPayment.
C20_FailureNeverConfirms ==
    /\ watcher.outcome = "error" =>
           watcher.pc = "failed" /\ watcher.status = "none" /\ watcher.called = "none"
    /\ (watcher.outcome = "answered" /\ ~watcher.txHash) =>
           /\ watcher.status = "pending"
           /\ watcher.called \in {"none", "skip"}
           /\ watcher.pc = "decided" => watcher.called = "skip"

\* C20 witness: the Bitcoin watcher found no transaction and monitorPayment
\* has ended without calling processPayment.
C20_Witness ==
    /\ watcher.pc = "decided"
    /\ watcher.outcome = "answered" /\ ~watcher.txHash
    /\ watcher.status = "pending" /\ watcher.called = "skip"

\* C21: getTransactionStatus is a pure read of the invoices and transactions
\* tables: a call leaves the Invoice and every Transaction as they were, and
\* what it returns is the stored Invoice, its Transactions latest first, the
\* Lightning status when the Invoice has a payment hash, and the overall status
\* computed from the Invoice's status and the latest Transaction.
C21_GetStatusPureRead ==
    [][ reader' # reader =>
          /\ invoice' = invoice
          /\ transactions' = transactions
          /\ reader'.outcome = "returned" =>
               /\ reader'.invoice = invoice
               /\ Len(reader'.transactions) =
                     Cardinality({c \in Tasks : transactions[c].status # "none"})
               /\ \A i \in 1..Len(reader'.transactions) :
                     \E c \in Tasks : reader'.transactions[i] = transactions[c]
               /\ reader'.lightningInvoice =
                     (IF invoice.lightning_payment_hash THEN lnStatus' ELSE "none")
               /\ reader'.status =
                     (IF invoice.status = "paid" /\ transactions[1].status # "none"
                      THEN (IF transactions[2].status # "none"
                            THEN transactions[2].status ELSE transactions[1].status)
                      ELSE IF invoice.status \in {"expired", "cancelled"} THEN "failed"
                      ELSE "pending") ]_vars

\* C21 witness: a second call has returned on a paid Invoice with a Lightning
\* payment hash and two Transactions.
C21_Witness ==
    /\ reader.reads = MaxReads
    /\ reader.outcome = "returned"
    /\ invoice.status = "paid" /\ invoice.lightning_payment_hash
    /\ Len(reader.transactions) = 2
    /\ reader.lightningInvoice = "expired"

\* C22: the fiat amount of a stored Invoice is the one given at createInvoice:
\* no step of generatePaymentAddress, processPayment, processLightningPayment
\* or processKESSettlement changes it.
C22_AmountImmutable ==
    [][ invoice.status # "none" =>
          /\ invoice'.status # "none"
          /\ invoice'.amount = invoice.amount ]_vars

\* C22 witness: an Invoice that was given an address, paid and settled through
\* the payout rail still carries its amount.
C22_Witness ==
    /\ invoice.status = "paid"
    /\ invoice.payment_address /\ invoice.settlement_tx_id
    /\ invoice.amount \in InvoiceAmounts

\* C23: a Transaction's status only moves forward along pending -> processing
\* -> completed | failed: no step takes it from `processing` back to `pending`,
\* and `completed` and `failed` are never left.
C23_TransactionForwardOnly ==
    [][ \A c \in Tasks :
          /\ transactions[c].status = "processing" => transactions'[c].status # "pending"
          /\ transactions[c].status \in {"completed", "failed"} =>
                 transactions'[c].status = transactions[c].status ]_vars

\* C24: once a fiat settlement has returned, its Transaction is `completed` if
\* the payout rail answered `completed` and `pending` for any other answer;
\* once it has returned or thrown, the Transaction is no longer `processing`.
C24_SettlementOutcome ==
    \A c \in Tasks :
        (tasks[c].pc \in {"k_update_invoice", "done"} /\ ledger[c].conversions > 0) =>
            /\ transactions[c].status \in {"completed", "pending", "failed"}
            /\ ledger[c].thrownAt = "none" =>
                   /\ ledger[c].reported # "none"
                   /\ transactions[c].status = "completed" <=> ledger[c].reported = "completed"
                   /\ transactions[c].status = "pending" <=> ledger[c].reported # "completed"
            /\ ledger[c].thrownAt # "none" => transactions[c].status = "failed"

\* C24 witness: a settlement has returned after the payout rail answered
\* something other than `completed`, and its Transaction is `pending`.
C24_Witness ==
    \E c \in Tasks :
        /\ tasks[c].pc = "done" /\ tasks[c].result = "ok"
        /\ ledger[c].payouts = 1 /\ ledger[c].thrownAt = "none"
        /\ ledger[c].reported = "failed"
        /\ transactions[c].status = "pending"

\* C26: the optimizer recommends a horizon of 5, 15 or 30 minutes only if the
\* wait is within maxWaitTime and the horizon's confidence-weighted,
\* risk-adjusted value is strictly above the value of converting now;
\* otherwise, ties included, it recommends `immediate`; estimatedSavings is the
\* chosen value minus the immediate value: 0 for `immediate`, positive otherwise.
C26_OptimalTiming ==
    optimizer.pc = "returned" =>
        LET o == optimizer
            immediateValue == o.amount * o.currentRate * PercentScale * AdjustmentScale
            adjusted(h) == o.amount * o.predictedRates[h] * o.confidence[h]
                               * calculateRiskAdjustment(riskLevelOf(o.volatilityIndex),
                                                         o.volatilityIndex)
            qualifies(h) == waitMinutes(h) <= o.maxWaitTime /\ adjusted(h) > immediateValue
        IN /\ o.recommendedTiming \in Timings
           /\ o.recommendedTiming # "immediate" =>
                 /\ qualifies(o.recommendedTiming)
                 /\ o.estimatedSavings = adjusted(o.recommendedTiming) - immediateValue
                 /\ o.estimatedSavings > 0
           /\ o.recommendedTiming = "immediate" => o.estimatedSavings = 0
           /\ (~ \E h \in Horizons : qualifies(h)) => o.recommendedTiming = "immediate"

\* C26 witness: a tie at 5 minutes and a strictly better value at 15 minutes
\* within maxWaitTime; the 15-minute horizon is recommended.
C26_Witness ==
    /\ optimizer.pc = "returned"
    /\ optimizer.volatilityIndex <= MediumRiskVolatility
    /\ optimizer.predictedRates["wait_5min"] * optimizer.confidence["wait_5min"]
           = optimizer.currentRate * PercentScale
    /\ optimizer.maxWaitTime = 15
    /\ optimizer.recommendedTiming = "wait_15min"
    /\ optimizer.estimatedSavings > 0

C27_MonitoringStatus ==
    gate.pc \in {"assessed", "decided"} =>
        LET doubleSpend == \E i \in DOMAIN gate.alerts :
                               gate.alerts[i].alertType = "confirmed_double_spend"
            highRisk == \E i \in DOMAIN gate.alerts :
                            gate.alerts[i].severity \in {"high", "critical"}
        IN gate.monitoringStatus =
               (IF doubleSpend THEN "double_spent"
                ELSE IF highRisk THEN "suspicious"
                ELSE IF gate.analysisConfirmations >= 1 THEN "confirmed"
                ELSE "pending")

\* C27 witness: one confirmation and only a medium alert give `confirmed`,
\* while the verdict, taken at 0 confirmations, is not safe.
C27_Witness ==
    /\ gate.pc = "assessed"
    /\ Len(gate.alerts) = 1 /\ gate.alerts[1].severity = "medium"
    /\ gate.alerts[1].alertType = "mempool_conflict"
    /\ gate.analysisConfirmations = 1 /\ gate.confirmations = 0
    /\ gate.monitoringStatus = "confirmed"
    /\ ~gate.safeToAccept

\* C28: once a TransactionMonitoring exists for a hash, later startMonitoring
\* and getTransactionStatus calls for it keep its creation time and its
\* invoice; they only re-evaluate it.
C28_RegisteredOnce ==
    [][ \A h \in Hashes :
          registry.monitoredTransactions[h] # NoMonitoring =>
              /\ registry'.monitoredTransactions[h].mempoolEntryTime =
                     registry.monitoredTransactions[h].mempoolEntryTime
              /\ registry'.monitoredTransactions[h].invoiceId =
                     registry.monitoredTransactions[h].invoiceId ]_vars

C30_ReorgExposure ==
    registry.lastHash # "none" =>
        LET c == registry.lastConfirmations
            alerts == registry.monitoredTransactions[registry.lastHash].alerts
            reorg == { i \in DOMAIN alerts : alerts[i].alertType = "chain_reorg" }
            risk25 == IF 25 - 4 * c > 0 THEN 25 - 4 * c ELSE 0
        IN /\ (reorg # {}) <=> (c < 6 /\ risk25 > 10)
           /\ (reorg # {}) <=> (c \in 0..3)
           /\ Cardinality(reorg) <= 1
           /\ \A i \in reorg :
                 /\ alerts[i].severity = (IF c < 3 THEN "medium" ELSE "low")
                 /\ alerts[i].confidence = 60 + 10 * c

\* C30 witness: evaluations at 3 confirmations (a `low` alert of confidence 90)
\* and at 6 confirmations (no alert) have both been made.
C30_Witness ==
    /\ registry.now = 2
    /\ registry.lastConfirmations = 6
    /\ \E h \in Hashes :
          /\ h # registry.lastHash
          /\ \E i \in DOMAIN registry.monitoredTransactions[h].alerts :
                registry.monitoredTransactions[h].alerts[i] = Alert("low", "chain_reorg", 90)
    /\ \A i \in DOMAIN registry.monitoredTransactions[registry.lastHash].alerts :
          registry.monitoredTransactions[registry.lastHash].alerts[i].alertType # "chain_reorg"

\* C31: for a merchant with a pattern the location risk is 25 without a
\* location, 70 for a location of the class VPN / Tor / Unknown whether or not
\* the merchant has seen it, 45 for any other location new to the merchant and
\* 10 for a location the merchant has seen.
C31_LocationRisk ==
    (fraud.assessments > 0 /\ fraud.lastHadPattern) =>
        fraud.locationRisk =
            (IF fraud.lastData.country = "none" THEN 25
             ELSE IF fraud.lastData.country \in {"Unknown", "VPN", "Tor"} THEN 70
             ELSE IF ~fraud.lastWasCommon THEN 45
             ELSE 10)

\* C32: after its assessments every assessed merchant has a pattern whose
\* average amount is that of all amounts assessed for it and whose seen
\* locations and device fingerprints hold those of every assessed request.
C32_PatternUpdated ==
    \A m \in DOMAIN fraud.transactionHistory :
        LET history == fraud.transactionHistory[m]
            pattern == fraud.merchantPatterns[m]
        IN Len(history) > 0 =>
               /\ pattern # NoPattern
               /\ pattern.transactionCount = Len(history)
               /\ pattern.amountSum = SumAmounts(history)
               /\ \A i \in DOMAIN history :
                     /\ history[i].country # "none" =>
                            history[i].country \in pattern.commonLocations
                     /\ history[i].userAgent # "none" =>
                            history[i].userAgent \in pattern.deviceFingerprints

\* C33: the settlement is dispatched on the invoice's settlement preference:
\* `mpesa` goes through the conversion and the payout, and every other
\* preference (`btc`, `lightning`) goes through processBitcoinSettlement, which
\* records a service fee of exactly 2.5% of the crypto amount, completes the
\* transaction, and calls neither the conversion provider nor the payout rail.
KesSteps == {"k_convert", "k_send", "k_update_tx", "k_update_invoice", "k_catch"}

C33_SettlementDispatch ==
    \A c \in Tasks :
       /\ tasks[c].pc \in KesSteps => invoice.settlement_preference = "mpesa"
       /\ tasks[c].pc = "b_update" => invoice.settlement_preference \in {"btc", "lightning"}
       /\ (invoice.settlement_preference = "mpesa" /\ tasks[c].result = "ok"
             /\ transactions[c].status # "none")
            => (ledger[c].conversions = 1 /\ ledger[c].payouts = 1)
       /\ invoice.settlement_preference \in {"btc", "lightning"}
            => /\ ledger[c] = NoLedger
               /\ (tasks[c].pc = "done" /\ transactions[c].status # "none"
                     /\ tasks[c].result = "ok")
                    => /\ transactions[c].status = "completed"
                       /\ transactions[c].service_fee * 40 = transactions[c].crypto_amount * 1000

C33_Witness ==
    \E c \in Tasks :
       /\ invoice.settlement_preference = "lightning"
       /\ tasks[c].pc = "done" /\ tasks[c].result = "ok"
       /\ transactions[c].status = "completed"
       /\ transactions[c].service_fee = 25
       /\ ledger[c] = NoLedger

\* C34: the Lightning monitor loop re-arms its timer only after reading
\* `pending`, calls processLightningPayment at most once (after reading `paid`),
\* and always ends: a pending invoice is read as `expired` once the clock has
\* passed its expiry_time.
LoopReschedules ==
    /\ ln.processCalls <= 1
    /\ ln.loop = "armed" => ln.loopRead \in {"none", "pending"}
    /\ (ln.loop = "processing" \/ ln.processCalls = 1) => ln.loopRead = "paid"
    /\ (ln.loop = "ended" /\ ln.processCalls = 0) => ln.loopRead = "expired"

C34_LoopTerminates ==
    /\ []LoopReschedules
    /\ [][ln.loop = "ended" => ln'.loop = "ended"]_vars
    /\ <>(ln.loop = "ended")

C34_Witness ==
    /\ ln.loop = "ended"
    /\ ln.status = "expired"
    /\ ln.processCalls = 0
    /\ ln.now > ln.expiry_time

\* C38: a Lightning invoice's status only moves from `pending` to `paid` or
\* `expired` and never changes afterwards; markInvoiceAsPaid returns true at
\* most once for the payment hash and creates at most one payment record.
C38_StatusMonotonic ==
    /\ [][ln.status \in {"paid", "expired"} => ln'.status = ln.status]_vars
    /\ [][ln.status = "pending" => ln'.status \in {"pending", "paid", "expired"}]_vars
    /\ [](ln.markedTrue <= 1 /\ ln.payments <= 1)

C38_Witness ==
    /\ ln.status = "paid"
    /\ ln.markCalls = 2
    /\ ln.markedTrue = 1
    /\ ln.payments = 1

\* C39: a markInvoiceAsPaid call made after the invoice's expiry_time returns
\* false and leaves the invoice unpaid, whatever getInvoiceStatus calls ran
\* before it.
C39_NoPaymentAfterExpiry == ln.lateMark # "true"

\* C35: mpesaService.sendMoney is never called for a settlement whose
\* conversion the provider reported as `failed`.
C35_NoPayoutAfterFailedConversion ==
    \A c \in Tasks : ledger[c].conversionStatus = "failed" => ledger[c].payouts = 0

\* C36: the result of the gate's getTransactionStatus is consistent: its
\* confirmations, its alerts, its status and safeToAccept are those of one
\* observation of the transaction.
C36_OneObservation ==
    gate.pc = "assessed" =>
        \E conflicting \in BOOLEAN, isRBFEnabled \in BOOLEAN, originalTx \in BOOLEAN,
           hasMultipleOutputs \in BOOLEAN :
           /\ gate.alerts = analyzeTransaction(conflicting, isRBFEnabled, originalTx,
                                               hasMultipleOutputs, gate.confirmations)
           /\ gate.safeToAccept = isSafeToAccept(gate.alerts, gate.confirmations)
           /\ gate.monitoringStatus =
                  determineTransactionStatus(gate.alerts, gate.confirmations)

\* C37: an Invoice with status `paid` has at least one Transaction: the
\* Transaction is inserted before the Invoice is updated to `paid`, and a call
\* whose insert fails leaves the Invoice as it was and dispatches no settlement.
InsertFailureStops ==
    \A c \in Tasks :
       (tasks[c].pc \in {"pp_insert", "lp_insert"} /\ tasks'[c].pc = "done")
          => (invoice' = invoice /\ transactions' = transactions /\ ledger' = ledger
              /\ tasks'[c].result = "error")

PaidAfterInsert ==
    (invoice.status # "paid" /\ invoice'.status = "paid")
       => (\E c \in Tasks : transactions[c].status = "processing")

====
